---- MODULE Spec2Model ----
(***************************************************************************)
(* State-machine model of the real-time room / presence / message core of  *)
(* tm-chatapp-backend: services/socket.js (socket event handlers and the   *)
(* two process-global maps `rooms` and `onlineUsersByRoom`), the message   *)
(* controller (send / edit / delete / leave / HTTP room deletion) and the  *)
(* file and voice controllers (upload and bulk purge by room).             *)
(*                                                                         *)
(* Every socket or HTTP handler is one action that runs the handler to     *)
(* completion.  What a handler emits is an operator (XEmits) of the state  *)
(* it runs in and of its inputs; lastOp and outbox keep the last handler   *)
(* that changed the program's state and what it emitted, so a handler that *)
(* changes nothing (a refusal, a typing notice) is a stuttering step.      *)
(***************************************************************************)
EXTENDS Integers, Sequences, FiniteSets, TLC

----------------------------------------------------------------------------
(* Bounds of the model *)

\* explicit rooms that may be created in one run
MaxRooms == 1
\* ObjectIds (messages and attachment keys) that may be allocated in one run
MaxIds == 2
\* connections that may be live at the same time
MaxLive == 2
\* readings of the wall clock that are stored (one per insert or edit)
MaxTime == 3
\* handler calls that may be suspended at an await at the same time
MaxPending == 1
\* room deletions that may be under way at the same time
MaxCascades == 2

----------------------------------------------------------------------------
(* Principals: the content of the users / admins / clients collections.    *)

Users == {"A", "B", "C", "D"}

\* socket.user.role: the cookie (collection) the principal authenticates with
RoleOf(u) == IF u \in {"B", "D"} THEN "client" ELSE "user"

\* socket.user.companyId / req.user.companyId
CompanyOf(u) == IF u = "C" THEN "T2" ELSE "T1"

\* req.user.position: the stored position, as the HTTP middleware passes it on
PositionOf(u) == IF u \in {"B", "D"} THEN "Client" ELSE "Manager"

\* socket.user.firstName || "Anonymous"
FirstName(u) == "name_" \o u

\* company?.companyInfo?.companyName
CompanyName(t) == "company_name_" \o t

\* live transport sessions; each is bound to one principal for its lifetime
Conns == {"c1", "c2", "c3", "c4", "c5"}

\* the principal whose credential the handshake of c carries
ConnUser(c) == CASE c \in {"c1", "c2", "c10"} -> "A"
                 [] c \in {"c3", "c8"} -> "B"
                 [] c = "c4" -> "C"
                 [] c = "c5" -> "D"
                 [] c = "c6" -> "Z"
                 [] c = "c7" -> "E"
                 [] OTHER -> ""

\* handshakes the middleware turns away: an id in no collection, a stored
\* position outside allowedRoles, a client's token in the cookie of ordinary
\* members, no cookie at all, a forged admintoken next to a good token
RefusedConns == {"c6", "c7", "c8", "c9", "c10"}

\* db.collection("users" / "admins" / "clients"): the _ids each holds; E is an
\* ordinary member whose stored position is "Intern", F is administrative staff
Collection(role) == CASE role = "user" -> {"A", "C", "E"}
                      [] role = "admin" -> {"F"}
                      [] OTHER -> {"B", "D"}

\* user.position as stored
StoredPosition(id) == CASE id \in {"B", "D"} -> "Client"
                        [] id = "E" -> "Intern"
                        [] id = "F" -> "Admin"
                        [] OTHER -> "Manager"

\* String.prototype.toLowerCase on the positions in use
ToLowerCase(position) == CASE position = "Client" -> "client"
                           [] position = "Intern" -> "intern"
                           [] position = "Admin" -> "admin"
                           [] position = "Manager" -> "manager"
                           [] OTHER -> position

\* const allowedRoles of the socket middleware
AllowedRoles == {"employee", "ceo", "manager", "hr", "client", "teamleader", "admin"}

\* a signed token that jwt.verify rejects
Forged == "forged"

\* cookie.parse(socket.handshake.headers.cookie): the admintoken, token and
\* clientToken cookies as the ids their tokens decode to, "" when absent
Cookies(c) ==
  LET none == [admin |-> "", user |-> "", client |-> ""]
  IN CASE c = "c9" -> none
       [] c = "c10" -> [none EXCEPT !.admin = Forged, !.user = ConnUser(c)]
       [] c = "c8" -> [none EXCEPT !.user = ConnUser(c)]
       [] OTHER -> [none EXCEPT ![RoleOf(ConnUser(c))] = ConnUser(c)]

\* const tokenMap: the order in which the cookies are tried
TokenMap == <<"admin", "user", "client">>

\* the role getMessagesByRoom finds for an id: users first, then admins, then
\* clients; "" when no collection holds it
LookupRole(userId) ==
  IF userId \in Collection("user") THEN "user"
  ELSE IF userId \in Collection("admin") THEN "admin"
  ELSE IF userId \in Collection("client") THEN "client"
  ELSE ""

\* the io.use middleware as it would be without the position check
Authenticate_NoPositionCheck(cookies) ==
  LET present == {i \in 1..Len(TokenMap) : cookies[TokenMap[i]] # ""}
      refuse(reason) == [ok |-> FALSE, reason |-> reason, userId |-> "", role |-> ""]
  IN IF present = {} THEN refuse("Authentication token missing")
     ELSE LET role == TokenMap[CHOOSE i \in present : \A j \in present : i <= j]
              idKey == cookies[role]
          IN IF idKey = Forged THEN refuse("Authentication error: invalid signature")
             ELSE IF idKey \notin Collection(role)
                  THEN refuse("User not found, authorization denied")
             ELSE [ok |-> TRUE, reason |-> "", userId |-> idKey, role |-> role]

\* the io.use middleware: the role is that of the first cookie present, the
\* principal is looked up in that role's collection only
Authenticate(cookies) ==
  LET present == {i \in 1..Len(TokenMap) : cookies[TokenMap[i]] # ""}
      refuse(reason) == [ok |-> FALSE, reason |-> reason, userId |-> "", role |-> ""]
  IN IF present = {} THEN refuse("Authentication token missing")
     ELSE LET role == TokenMap[CHOOSE i \in present : \A j \in present : i <= j]
              idKey == cookies[role]
          IN IF idKey = Forged THEN refuse("Authentication error: invalid signature")
             ELSE IF idKey \notin Collection(role)
                  THEN refuse("User not found, authorization denied")
             ELSE IF ToLowerCase(StoredPosition(idKey)) \notin AllowedRoles
                  THEN refuse("Authorization error: Invalid or unauthorized role")
             ELSE [ok |-> TRUE, reason |-> "", userId |-> idKey, role |-> role]

\* the principals that act in Spec and SpecIO, and their sessions; D, a second
\* client of tenant T1, acts only in SpecRelay
Actors == Users \ {"D"}
ActorConns == {c \in Conns : ConnUser(c) \in Actors}

\* const companyRoom = `company_${companyId}`
CompanyRoomOf(u) == "company_" \o CompanyOf(u)

CompanyRooms == {CompanyRoomOf(u) : u \in Users}

\* roomId = `room_${Date.now()}_${random}`: the i-th id allocated
RoomId(i) == "room_" \o ToString(i)

ExplicitRoomIds == {RoomId(i) : i \in 1..MaxRooms}

\* roomId.startsWith("room_")
StartsWithRoom(r) == r \in ExplicitRoomIds

\* room ids a request may name: the explicit rooms and the company room of A's
\* and B's tenant, which to C is another tenant's room
TargetRooms == ExplicitRoomIds \cup {CompanyRoomOf("A")}

----------------------------------------------------------------------------
(* Strings as sequences of characters, so that trim() is computed *)

Hello == <<"h", "e", "l", "l", "o">>
Bye == <<"b", "y", "e">>

RECURSIVE TrimLeft(_)
TrimLeft(s) == IF s # <<>> /\ Head(s) = " " THEN TrimLeft(Tail(s)) ELSE s

RECURSIVE TrimRight(_)
TrimRight(s) == IF s # <<>> /\ s[Len(s)] = " "
                THEN TrimRight(SubSeq(s, 1, Len(s) - 1)) ELSE s

\* String.prototype.trim
Trim(s) == TrimRight(TrimLeft(s))

\* bodies a client may send: blank, and padded text
SendBodies == {<<" ">>, <<" ">> \o Hello \o <<" ">>}

\* bodies a client may offer to editMessage
EditBodies == {<<" ">>, Bye \o <<" ">>}

\* room names offered to createRoom
RoomNames == {"", "team"}

\* userIds lists offered to createRoom: none, another member, the creator
\* itself among them, a duplicate, a principal of another tenant, an id that is
\* in no principal collection
UserIdLists == {<<>>, <<"B">>, <<"A", "B">>, <<"B", "B">>, <<"B", "C">>, <<"Z">>}

\* user ids a typing payload may carry
TypingUserIds == {"A", "B"}

Range(s) == {s[i] : i \in 1..Len(s)}

\* Array.prototype.includes
Includes(s, x) == x \in Range(s)

RECURSIVE Dedup(_)
\* [...new Set(list)]: first occurrences, in order
Dedup(s) == IF s = <<>> THEN <<>>
            ELSE LET init == Dedup(SubSeq(s, 1, Len(s) - 1))
                     last == s[Len(s)]
                 IN IF Includes(init, last) THEN init ELSE Append(init, last)

RECURSIVE Pull(_, _)
\* $pull: every occurrence of x removed
Pull(s, x) == IF s = <<>> THEN <<>>
              ELSE IF Head(s) = x THEN Pull(Tail(s), x)
              ELSE <<Head(s)>> \o Pull(Tail(s), x)

RECURSIVE SeqOfSet(_)
SeqOfSet(S) == IF S = {} THEN <<>>
               ELSE LET x == CHOOSE y \in S : TRUE
                    IN <<x>> \o SeqOfSet(S \ {x})

RECURSIVE Concat(_)
Concat(ss) == IF ss = <<>> THEN <<>> ELSE Head(ss) \o Concat(Tail(ss))

\* f without key k
Without(f, k) == [x \in DOMAIN f \ {k} |-> f[x]]

----------------------------------------------------------------------------
VARIABLES
  sockets,            \* io.sockets.sockets: the connected transports
  socketRooms,        \* socket.rooms restricted to explicit rooms
  rooms,              \* socket.js `rooms`: the in-memory room cache
  onlineUsersByRoom,  \* socket.js `onlineUsersByRoom`: the presence maps
  roomCollection,     \* db.collection("rooms")
  messageCollection,  \* db.collection("messages")
  s3,                 \* keys of the objects in the attachment bucket
  nextRoom,           \* rooms allocated so far + 1
  nextId,             \* ObjectIds allocated so far + 1
  now,                \* the wall clock: stored readings so far
  outbox,             \* events emitted by the last handler that changed the state
  lastOp,             \* the last handler that changed the state
  pending             \* handler calls suspended at an await on persistence

db == <<roomCollection, messageCollection, s3>>
memory == <<rooms, onlineUsersByRoom>>
transport == <<sockets, socketRooms>>
counters == <<nextRoom, nextId, now>>

\* the program's state
core == <<transport, memory, db, counters>>

vars == <<core, outbox, lastOp, pending>>

----------------------------------------------------------------------------
(* Events on the wire *)

\* one server-to-client event as one connection receives it
Ev(to, ev, room, userId, username, text, users, count, msg) ==
  [to |-> to, ev |-> ev, room |-> room, userId |-> userId, username |-> username,
   text |-> text, users |-> users, count |-> count, msg |-> msg]

\* socket.emit("errorMessage", text)
ErrorTo(c, text) == <<Ev(c, "errorMessage", "", "", "", <<text>>, {}, -1, 0)>>

\* the connections of a transport group, given the live sockets and their rooms:
\* every socket joins its own user id and its company room on connection
GroupOf(socks, sr, r) ==
  IF r \in CompanyRooms THEN {c \in socks : CompanyRoomOf(ConnUser(c)) = r}
  ELSE IF r \in Users THEN {c \in socks : ConnUser(c) = r}
  ELSE {c \in socks : r \in sr[c]}

\* io.sockets.adapter.rooms.get(roomId)
Group(r) == GroupOf(sockets, socketRooms, r)

\* the onlineUsersUpdate one recipient gets: a count for a client, the list otherwise
OnlineUsersUpdate(c, r, online) ==
  IF RoleOf(ConnUser(c)) = "client"
  THEN Ev(c, "onlineUsersUpdate", r, "", "", <<>>, {}, Cardinality(online), 0)
  ELSE Ev(c, "onlineUsersUpdate", r, "", "", <<>>, online, -1, 0)

\* the newMessage / messageUpdated payload of a stored message
MessageEv(c, ev, id, m, username) ==
  Ev(c, ev, m.roomId, m.userId, username, m.message, {}, -1, id)

\* the events f assigns to the connections of its domain, one after the other
EmitEach(f) == [i \in 1..Cardinality(DOMAIN f) |-> f[SeqOfSet(DOMAIN f)[i]]]

\* the last handler: its name, the connection (socket) or principal (HTTP) behind
\* it, the room it named, and the message id it worked on
Op(op, by, room, n) == [op |-> op, by |-> by, room |-> room, n |-> n]

\* a handler that changed the state is recorded with what it emitted
Record(op, emits) ==
  IF core' = core THEN UNCHANGED <<outbox, lastOp>>
  ELSE outbox' = emits /\ lastOp' = op

----------------------------------------------------------------------------
Init ==
  /\ sockets = {}
  /\ socketRooms = [c \in Conns |-> {}]
  /\ rooms = <<>>
  /\ onlineUsersByRoom = <<>>
  /\ roomCollection = <<>>
  /\ messageCollection = <<>>
  /\ s3 = {}
  /\ nextRoom = 1
  /\ nextId = 1
  /\ now = 0
  /\ outbox = <<>>
  /\ lastOp = Op("init", "", "", 0)
  /\ pending = {}

\* process exit and start: the module-level maps start empty, every transport is
\* gone, persistence stays
Restart ==
  /\ sockets' = {}
  /\ socketRooms' = [c \in Conns |-> {}]
  /\ rooms' = <<>>
  /\ onlineUsersByRoom' = <<>>
  /\ UNCHANGED <<db, counters>>
  /\ pending' = {}
  /\ Record(Op("restart", "", "", 0), <<>>)

\* the cached form of a room record
CacheEntry(room) == [roomName |-> room.roomName, users |-> room.users, creator |-> room.creator]

\* roomCollection.find({ users: userId })
UserRooms(u) == {r \in DOMAIN roomCollection : Includes(roomCollection[r].users, u)}

\* the roomCreated notices of the connection-time room fetch
ConnectEmits(c) ==
  EmitEach([r \in UserRooms(ConnUser(c)) |->
           Ev(c, "roomCreated", r, roomCollection[r].creator, "",
                         <<roomCollection[r].roomName>>,
                         IF RoleOf(ConnUser(c)) = "client" THEN {}
                         ELSE Range(roomCollection[r].users), -1, 0)])

\* io.on("connection"): bind the identity, join the user and company groups, then
\* cache and join every room the principal is in; a socket id is not handed out
\* again while a call of its former socket is outstanding
Connect(c) ==
  LET userRooms == UserRooms(ConnUser(c))
  IN /\ c \notin sockets
     /\ \A call \in pending : call.by # c
     /\ Authenticate(Cookies(c)).ok
     /\ Cardinality(sockets) < MaxLive
     /\ sockets' = sockets \cup {c}
     /\ rooms' = [r \in DOMAIN rooms \cup userRooms |->
                    IF r \in userRooms THEN CacheEntry(roomCollection[r]) ELSE rooms[r]]
     /\ socketRooms' = [socketRooms EXCEPT ![c] = userRooms]
     /\ UNCHANGED <<onlineUsersByRoom, db, counters>>
     /\ UNCHANGED pending
     /\ Record(Op("connect", c, "", 0), ConnectEmits(c))

\* presence after a disconnect as it would be if the handler walked the rooms
\* of the socket, which are already left when 'disconnect' fires
PresenceWithout_OverSocketRooms(c) ==
  LET left == {}
  IN [r \in DOMAIN onlineUsersByRoom |->
        IF r \in left THEN onlineUsersByRoom[r] \ {ConnUser(c)} ELSE onlineUsersByRoom[r]]

\* presence after the principal of c is dropped from every map
PresenceWithout(c) ==
  [r \in DOMAIN onlineUsersByRoom |-> onlineUsersByRoom[r] \ {ConnUser(c)}]

\* the broadcasts of a disconnect as they would be if every presence map were
\* announced, whether or not it held the principal
DisconnectEmits_EveryMap(c) ==
  LET update(r) == EmitEach([x \in GroupOf(sockets \ {c}, socketRooms, r) |->
                            OnlineUsersUpdate(x, r, PresenceWithout(c)[r])])
  IN Concat(EmitEach([r \in DOMAIN onlineUsersByRoom |-> update(r)]))

\* the onlineUsersUpdate broadcasts of a disconnect: one per presence map that
\* held the principal, to the sockets left in the room's group
DisconnectEmits(c) ==
  LET affected == {r \in DOMAIN onlineUsersByRoom : ConnUser(c) \in onlineUsersByRoom[r]}
      update(r) == EmitEach([x \in GroupOf(sockets \ {c}, socketRooms, r) |->
                            OnlineUsersUpdate(x, r, PresenceWithout(c)[r])])
  IN Concat(EmitEach([r \in affected |-> update(r)]))

\* socket.on("disconnect"): the transport has left its groups
Disconnect(c) ==
  /\ c \in sockets
  /\ sockets' = sockets \ {c}
  /\ socketRooms' = [socketRooms EXCEPT ![c] = {}]
  /\ onlineUsersByRoom' = PresenceWithout(c)
  /\ UNCHANGED <<rooms, db, counters>>
  /\ pending' = {[call EXCEPT !.open = (call.by # c /\ @)] : call \in pending}
  /\ Record(Op("disconnect", c, "", 0), DisconnectEmits(c))

----------------------------------------------------------------------------
(* Rooms *)

\* function isUserInRoom(roomId)
isUserInRoom(c, roomId) ==
  roomId \in DOMAIN rooms /\ Includes(rooms[roomId].users, ConnUser(c))

\* validateCompanyUsers as it would be if the queries left the companyId out
validateCompanyUsers_AnyCompany(c, userIds) == {id \in Range(userIds) : id \in Users}

\* validateCompanyUsers(userIds): the ids found in a principal collection with the
\* creator's companyId
validateCompanyUsers(c, userIds) ==
  {id \in Range(userIds) : id \in Users /\ CompanyOf(id) = CompanyOf(ConnUser(c))}

\* the error createRoom answers, "" when the room is created
CreateRefusal(c, roomName, userIds) ==
  IF roomName = "" \/ userIds = <<>> THEN "Invalid room name or users."
  ELSE IF Range(userIds) \ validateCompanyUsers(c, userIds) # {}
       THEN "Some users do not belong to your company."
  ELSE ""

\* the member list as it would be without the Set
AllUserIds_NoSet(c, userIds) == <<ConnUser(c)>> \o userIds

\* const allUserIds = [...new Set([userId, ...userIds])]
AllUserIds(c, userIds) == Dedup(<<ConnUser(c)>> \o userIds)

\* createRoom as it would be if only the creator's socket joined the new group
CreateRoomJoins_CreatorOnly(c, allUserIds) == {c}

\* the sockets createRoom adds to the new room's transport group
CreateRoomJoins(c, allUserIds) ==
  {c} \cup {x \in sockets : Includes(allUserIds, ConnUser(x))}

\* the stored "room created" system message
SystemMsg(roomId, c) ==
  [userId |-> "system", username |-> "System", companyName |-> "System",
   message |-> <<"room", "created">>, timestamp |-> now + 1, updatedAt |-> -1,
   companyId |-> CompanyOf(ConnUser(c)), roomId |-> roomId, kind |-> "text"]

\* choices of "the first socket of each connected user" in the socket map
FirstSockets ==
  {first \in SUBSET sockets :
     \A x \in sockets : Cardinality({y \in first : ConnUser(y) = ConnUser(x)}) = 1}

\* what createRoom emits: the error, or roomCreated to the first socket of each
\* member and the system message to the new group
CreateRoomEmits(c, roomName, userIds, first) ==
  LET u == ConnUser(c)
      roomId == RoomId(nextRoom)
      allUserIds == AllUserIds(c, userIds)
      systemMsg == SystemMsg(roomId, c)
  IN IF CreateRefusal(c, roomName, userIds) # ""
     THEN ErrorTo(c, CreateRefusal(c, roomName, userIds))
     ELSE Concat([i \in 1..Len(allUserIds) |->
                   EmitEach([x \in {y \in first : ConnUser(y) = allUserIds[i]} |->
                            Ev(x, "roomCreated", roomId, u, "", <<roomName>>,
                                          IF RoleOf(ConnUser(x)) = "client"
                                          THEN {} ELSE Range(allUserIds), -1, 0)])])
          \o EmitEach([x \in CreateRoomJoins(c, allUserIds) |->
                      MessageEv(x, "newMessage", nextId, systemMsg,
                                           systemMsg.username)])

\* socket.on("createRoom")
CreateRoom(c, roomName, userIds) ==
  LET u == ConnUser(c)
      roomId == RoomId(nextRoom)
      allUserIds == AllUserIds(c, userIds)
  IN /\ c \in sockets
     /\ IF CreateRefusal(c, roomName, userIds) # ""
        THEN UNCHANGED vars
        ELSE /\ nextRoom <= MaxRooms
             /\ nextId <= MaxIds
             /\ now < MaxTime
             /\ roomCollection' = (roomId :> [roomName |-> roomName, users |-> allUserIds,
                                              creator |-> u, companyId |-> CompanyOf(u)])
                                   @@ roomCollection
             /\ rooms' = (roomId :> [roomName |-> roomName, users |-> allUserIds,
                                     creator |-> u]) @@ rooms
             /\ socketRooms' = [x \in Conns |->
                                  IF x \in CreateRoomJoins(c, allUserIds)
                                  THEN socketRooms[x] \cup {roomId} ELSE socketRooms[x]]
             /\ messageCollection' = (nextId :> SystemMsg(roomId, c)) @@ messageCollection
             /\ nextRoom' = nextRoom + 1
             /\ nextId' = nextId + 1
             /\ now' = now + 1
             /\ UNCHANGED <<sockets, onlineUsersByRoom, s3>>
             /\ UNCHANGED pending
             /\ \E first \in FirstSockets :
                  Record(Op("createRoom", c, roomId, nextId),
                         CreateRoomEmits(c, roomName, userIds, first))

\* joinRoom's guard as it would be if it only looked the room up
JoinAllowed_AnyCachedRoom(c, roomId) == roomId \in DOMAIN rooms

\* the room the handler admits the principal to: rooms.get(roomId) with the
\* principal among its users
JoinAllowed(c, roomId) == isUserInRoom(c, roomId)

\* presence of a room after the principal of c is added
PresentAfterJoin(c, roomId) ==
  IF roomId \in DOMAIN onlineUsersByRoom
  THEN onlineUsersByRoom[roomId] \cup {ConnUser(c)} ELSE {ConnUser(c)}

\* what joinRoom emits: the error, or the confirmation, userJoined to the other
\* non-client principals' sockets, and the presence snapshot to the group
JoinRoomEmits(c, roomId) ==
  LET u == ConnUser(c)
      present == PresentAfterJoin(c, roomId)
      group == GroupOf(sockets, [socketRooms EXCEPT ![c] = @ \cup {roomId}], roomId)
  IN IF ~JoinAllowed(c, roomId)
     THEN ErrorTo(c, "Unauthorized or non-existent room.")
     ELSE <<Ev(c, "joinConfirmation", roomId, "", "", <<rooms[roomId].roomName>>,
               IF RoleOf(u) = "client" THEN {} ELSE present, -1, 0)>>
          \o EmitEach([x \in {y \in group : RoleOf(ConnUser(y)) # "client" /\ ConnUser(y) # u} |->
                      Ev(x, "userJoined", roomId, u, FirstName(u), <<>>, {}, -1, 0)])
          \o EmitEach([x \in group |-> OnlineUsersUpdate(x, roomId, present)])

\* socket.on("joinRoom")
JoinRoom(c, roomId) ==
  /\ c \in sockets
  /\ IF ~JoinAllowed(c, roomId)
     THEN UNCHANGED vars
     ELSE /\ socketRooms' = [socketRooms EXCEPT ![c] = @ \cup {roomId}]
          /\ onlineUsersByRoom' = (roomId :> PresentAfterJoin(c, roomId)) @@ onlineUsersByRoom
          /\ UNCHANGED <<sockets, rooms, db, counters>>
          /\ UNCHANGED pending
          /\ Record(Op("joinRoom", c, roomId, 0), JoinRoomEmits(c, roomId))

\* handleLeaveRoom's verdict as it would be without the creator check
LeaveRefusal_NoCreatorCheck(c, roomId) ==
  LET u == ConnUser(c)
  IN IF roomId \notin DOMAIN roomCollection THEN "Room not found"
     ELSE IF roomCollection[roomId].companyId # CompanyOf(u)
          THEN "You are not authorized to access this room"
     ELSE IF ~Includes(roomCollection[roomId].users, u)
          THEN "You are not a member of this room"
     ELSE ""

\* handleLeaveRoom's verdict: "" when the leave goes through, else the error it emits
LeaveRefusal(c, roomId) ==
  LET u == ConnUser(c)
  IN IF roomId \notin DOMAIN roomCollection THEN "Room not found"
     ELSE IF roomCollection[roomId].companyId # CompanyOf(u)
          THEN "You are not authorized to access this room"
     ELSE IF ~Includes(roomCollection[roomId].users, u)
          THEN "You are not a member of this room"
     ELSE IF roomCollection[roomId].creator = u
          THEN "Room creator cannot leave the room"
     ELSE ""

\* handleLeaveRoom as it would be without the $pull
RoomsAfterLeave_NoPull(c, roomId) == roomCollection

\* the rooms collection after handleLeaveRoom: $pull, then deleteOne if empty
RoomsAfterLeave(c, roomId) ==
  IF LeaveRefusal(c, roomId) # "" THEN roomCollection
  ELSE LET remaining == Pull(roomCollection[roomId].users, ConnUser(c))
       IN IF remaining = <<>> THEN Without(roomCollection, roomId)
          ELSE [roomCollection EXCEPT ![roomId].users = remaining]

\* the cache after leaveRoom re-reads the record: refreshed, or dropped with it
CacheAfterLeave(c, roomId) ==
  IF roomId \in DOMAIN RoomsAfterLeave(c, roomId)
  THEN (roomId :> CacheEntry(RoomsAfterLeave(c, roomId)[roomId])) @@ rooms
  ELSE Without(rooms, roomId)

\* presence after leaveRoom: the map goes with the record, else the principal
\* goes from the map
PresenceAfterLeave(c, roomId) ==
  IF roomId \notin DOMAIN RoomsAfterLeave(c, roomId) THEN Without(onlineUsersByRoom, roomId)
  ELSE IF roomId \in DOMAIN onlineUsersByRoom
       THEN [onlineUsersByRoom EXCEPT ![roomId] = @ \ {ConnUser(c)}]
  ELSE onlineUsersByRoom

\* socket.rooms of every connection after handleLeaveRoom
SocketRoomsAfterLeave(c, roomId) ==
  IF LeaveRefusal(c, roomId) = "" THEN [socketRooms EXCEPT ![c] = @ \ {roomId}]
  ELSE socketRooms

\* what leaveRoom would emit if the presence snapshot went out before
\* handleLeaveRoom's notifications
LeaveRoomEmits_PresenceFirst(c, roomId) ==
  LET u == ConnUser(c)
      group == GroupOf(sockets, SocketRoomsAfterLeave(c, roomId), roomId)
      presence == PresenceAfterLeave(c, roomId)
  IN (IF roomId \in DOMAIN presence
      THEN EmitEach([x \in group |-> OnlineUsersUpdate(x, roomId, presence[roomId])])
      ELSE <<>>)
     \o (IF LeaveRefusal(c, roomId) # "" THEN ErrorTo(c, LeaveRefusal(c, roomId))
         ELSE <<Ev(c, "roomLeft", roomId, u, "", <<>>, {}, -1, 0)>>
              \o EmitEach([x \in group \ {c} |->
                          Ev(x, "userLeftRoom", roomId, u, FirstName(u),
                                        <<roomCollection[roomId].roomName>>, {}, -1, 0)]))

\* what leaveRoom emits: handleLeaveRoom's error or its roomLeft / userLeftRoom,
\* then the presence snapshot when the room still has a presence map
LeaveRoomEmits(c, roomId) ==
  LET u == ConnUser(c)
      group == GroupOf(sockets, SocketRoomsAfterLeave(c, roomId), roomId)
      presence == PresenceAfterLeave(c, roomId)
  IN (IF LeaveRefusal(c, roomId) # "" THEN ErrorTo(c, LeaveRefusal(c, roomId))
      ELSE <<Ev(c, "roomLeft", roomId, u, "", <<>>, {}, -1, 0)>>
           \o EmitEach([x \in group \ {c} |->
                       Ev(x, "userLeftRoom", roomId, u, FirstName(u),
                                     <<roomCollection[roomId].roomName>>, {}, -1, 0)]))
     \o (IF roomId \in DOMAIN presence
         THEN EmitEach([x \in group |-> OnlineUsersUpdate(x, roomId, presence[roomId])])
         ELSE <<>>)

\* socket.on("leaveRoom"): handleLeaveRoom, then the cache refresh and the presence
\* update, which run whatever handleLeaveRoom decided
LeaveRoom(c, roomId) ==
  /\ c \in sockets
  /\ roomCollection' = RoomsAfterLeave(c, roomId)
  /\ socketRooms' = SocketRoomsAfterLeave(c, roomId)
  /\ rooms' = CacheAfterLeave(c, roomId)
  /\ onlineUsersByRoom' = PresenceAfterLeave(c, roomId)
  /\ UNCHANGED <<sockets, messageCollection, s3, counters>>
  /\ UNCHANGED pending
  /\ Record(Op("leaveRoom", c, roomId, 0), LeaveRoomEmits(c, roomId))

\* socket.on("deleteRoom"): handleDeleteRoom is handed the socket as req and the
\* payload as res; socket.user.position is lower-cased, so the position gate
\* calls res.status, which the payload does not have, and the handler's promise
\* rejects before any persistence access; the presence map is dropped regardless
DeleteRoomSocket(c, roomId) ==
  /\ c \in sockets
  /\ onlineUsersByRoom' = Without(onlineUsersByRoom, roomId)
  /\ UNCHANGED <<rooms, db, transport, counters>>
  /\ UNCHANGED pending
  /\ Record(Op("deleteRoomSocket", c, roomId, 0), <<>>)

----------------------------------------------------------------------------
(* Messages *)

\* function getActiveRoom(): some joined explicit room, else the company room
ActiveRooms(c) == IF socketRooms[c] # {} THEN socketRooms[c] ELSE {CompanyRoomOf(ConnUser(c))}

\* const roomId = currentRoom || getActiveRoom()
ResolveRooms(c, currentRoom) == IF currentRoom = "" THEN ActiveRooms(c) ELSE {currentRoom}

\* roomId !== companyRoom && !isUserInRoom(roomId)
Unauthorized(c, roomId) == roomId # CompanyRoomOf(ConnUser(c)) /\ ~isUserInRoom(c, roomId)

\* the errors sendMessage answers, <<>> when the message is stored
SendRefusal(c, message, roomId) ==
  IF Unauthorized(c, roomId) THEN <<"Unauthorized room access.">>
  ELSE IF Trim(message) = <<>>
       THEN <<"Message is required and must be a non-empty string", "Error sending message.">>
  ELSE <<>>

\* the document handleSendMessage inserts
FormattedMessage(c, message, roomId) ==
  LET u == ConnUser(c)
  IN [userId |-> u, username |-> FirstName(u), companyName |-> CompanyName(CompanyOf(u)),
      message |-> Trim(message), timestamp |-> now + 1, updatedAt |-> -1,
      companyId |-> CompanyOf(u), roomId |-> roomId, kind |-> "text"]

\* the username a recipient of newMessage sees: clientMessage for a client
\* recipient, baseMessage otherwise
NewMessageName(c, x, saved) ==
  IF RoleOf(ConnUser(x)) = "client"
  THEN IF RoleOf(ConnUser(c)) = "client" THEN saved.username ELSE saved.companyName
  ELSE saved.username

\* what sendMessage emits: its errors, or newMessage to every socket of the group
SendMessageEmits(c, message, roomId) ==
  LET refusal == SendRefusal(c, message, roomId)
      saved == FormattedMessage(c, message, roomId)
  IN IF refusal # <<>>
     THEN Concat([i \in 1..Len(refusal) |-> ErrorTo(c, refusal[i])])
     ELSE EmitEach([x \in Group(roomId) |->
                   MessageEv(x, "newMessage", nextId, saved,
                                        NewMessageName(c, x, saved))])

\* socket.on("sendMessage") with handleSendMessage
SendMessage(c, message, currentRoom) ==
  \E roomId \in ResolveRooms(c, currentRoom) :
    /\ c \in sockets
    /\ IF SendRefusal(c, message, roomId) # <<>>
       THEN UNCHANGED vars
       ELSE /\ nextId <= MaxIds
            /\ now < MaxTime
            /\ messageCollection' = (nextId :> FormattedMessage(c, message, roomId))
                                     @@ messageCollection
            /\ nextId' = nextId + 1
            /\ now' = now + 1
            /\ UNCHANGED <<roomCollection, s3, memory, transport, nextRoom>>
            /\ UNCHANGED pending
            /\ Record(Op("sendMessage", c, roomId, nextId),
                      SendMessageEmits(c, message, roomId))

\* message ids a client may name: allocated or not, and 0 for a malformed id
MessageIds == 0..MaxIds

\* handleEditMessage's verdict as it would be if the message were looked up by
\* its id alone
EditRefusal_AnyRoom(c, messageId, newMessage, targetRoom) ==
  IF messageId = 0 THEN "Invalid or missing message ID"
  ELSE IF Trim(newMessage) = <<>>
       THEN "New message is required and must be a non-empty string"
  ELSE IF messageId \notin DOMAIN messageCollection
       THEN "Message not found in this room"
  ELSE IF messageCollection[messageId].userId # ConnUser(c)
       THEN "You are not authorized to edit this message"
  ELSE ""

\* handleEditMessage's verdict as it would be without the author check
EditRefusal_NoAuthorCheck(c, messageId, newMessage, targetRoom) ==
  IF messageId = 0 THEN "Invalid or missing message ID"
  ELSE IF Trim(newMessage) = <<>>
       THEN "New message is required and must be a non-empty string"
  ELSE IF messageId \notin DOMAIN messageCollection
          \/ messageCollection[messageId].roomId # targetRoom
       THEN "Message not found in this room"
  ELSE ""

\* handleEditMessage's verdict: "" when the edit goes through
EditRefusal(c, messageId, newMessage, targetRoom) ==
  IF messageId = 0 THEN "Invalid or missing message ID"
  ELSE IF Trim(newMessage) = <<>>
       THEN "New message is required and must be a non-empty string"
  ELSE IF messageId \notin DOMAIN messageCollection
          \/ messageCollection[messageId].roomId # targetRoom
       THEN "Message not found in this room"
  ELSE IF messageCollection[messageId].userId # ConnUser(c)
       THEN "You are not authorized to edit this message"
  ELSE ""

\* { $set: { message: newMessage.trim(), updatedAt: new Date() } }
EditedMessage(m, newMessage) == [m EXCEPT !.message = Trim(newMessage), !.updatedAt = now + 1]

\* the error editMessage answers, "" when the message is updated
EditMessageRefusal(c, messageId, newMessage, currentRoom) ==
  IF Unauthorized(c, currentRoom) THEN "Unauthorized edit attempt."
  ELSE EditRefusal(c, messageId, newMessage, currentRoom)

\* what editMessage emits: the error, or messageUpdated to the rest of the group
\* and to the editor
EditMessageEmits(c, messageId, newMessage, currentRoom) ==
  IF EditMessageRefusal(c, messageId, newMessage, currentRoom) # ""
  THEN ErrorTo(c, EditMessageRefusal(c, messageId, newMessage, currentRoom))
  ELSE LET updated == EditedMessage(messageCollection[messageId], newMessage)
       IN EmitEach([x \in Group(currentRoom) \ {c} |->
                   MessageEv(x, "messageUpdated", messageId, updated,
                                        updated.username)])
          \o <<MessageEv(c, "messageUpdated", messageId, updated, updated.username)>>

\* socket.on("editMessage") with handleEditMessage
EditMessage(c, messageId, newMessage, currentRoom) ==
  /\ c \in sockets
  /\ IF EditMessageRefusal(c, messageId, newMessage, currentRoom) # ""
     THEN UNCHANGED vars
     ELSE /\ now < MaxTime
          /\ messageCollection' =
               [messageCollection EXCEPT
                  ![messageId] = EditedMessage(messageCollection[messageId], newMessage)]
          /\ now' = now + 1
          /\ UNCHANGED <<roomCollection, s3, memory, transport, nextRoom, nextId>>
          /\ UNCHANGED pending
          /\ Record(Op("editMessage", c, currentRoom, messageId),
                    EditMessageEmits(c, messageId, newMessage, currentRoom))

\* handleDeleteMessage's verdict as it would be without the author check
DeleteRefusal_NoAuthorCheck(c, messageId, targetRoom) ==
  IF messageId = 0 THEN "Invalid message ID"
  ELSE IF targetRoom = "" THEN "Target room is required"
  ELSE IF messageId \notin DOMAIN messageCollection
          \/ messageCollection[messageId].roomId # targetRoom
       THEN "Message not found in this room"
  ELSE ""

\* handleDeleteMessage's verdict as it would be if a Manager could delete any
\* message of the room
DeleteRefusal_ManagerMayDelete(c, messageId, targetRoom) ==
  IF messageId = 0 THEN "Invalid message ID"
  ELSE IF targetRoom = "" THEN "Target room is required"
  ELSE IF messageId \notin DOMAIN messageCollection
          \/ messageCollection[messageId].roomId # targetRoom
       THEN "Message not found in this room"
  ELSE IF messageCollection[messageId].userId # ConnUser(c)
          /\ PositionOf(ConnUser(c)) # "Manager"
       THEN "You are not authorized to delete this message"
  ELSE ""

\* handleDeleteMessage's verdict: "" when the deletion goes through
DeleteRefusal(c, messageId, targetRoom) ==
  IF messageId = 0 THEN "Invalid message ID"
  ELSE IF targetRoom = "" THEN "Target room is required"
  ELSE IF messageId \notin DOMAIN messageCollection
          \/ messageCollection[messageId].roomId # targetRoom
       THEN "Message not found in this room"
  ELSE IF messageCollection[messageId].userId # ConnUser(c)
       THEN "You are not authorized to delete this message"
  ELSE ""

\* the error deleteMessage answers, "" when the message is removed
DeleteMessageRefusal(c, messageId, roomId, currentRoom) ==
  IF Unauthorized(c, roomId) THEN "Unauthorized delete attempt."
  ELSE DeleteRefusal(c, messageId, currentRoom)

\* what deleteMessage emits: the error, or messageDeleted to the rest of the
\* group and to the deleter
DeleteMessageEmits(c, messageId, roomId, currentRoom) ==
  IF DeleteMessageRefusal(c, messageId, roomId, currentRoom) # ""
  THEN ErrorTo(c, DeleteMessageRefusal(c, messageId, roomId, currentRoom))
  ELSE EmitEach([x \in Group(currentRoom) \ {c} |->
                Ev(x, "messageDeleted", "", "", "", <<>>, {}, -1, messageId)])
       \o <<Ev(c, "messageDeleted", "", "", "", <<>>, {}, -1, messageId)>>

\* socket.on("deleteMessage") with handleDeleteMessage
DeleteMessage(c, messageId, currentRoom) ==
  \E roomId \in ResolveRooms(c, currentRoom) :
    /\ c \in sockets
    /\ IF DeleteMessageRefusal(c, messageId, roomId, currentRoom) # ""
       THEN UNCHANGED vars
       ELSE /\ messageCollection' = Without(messageCollection, messageId)
            /\ UNCHANGED <<roomCollection, s3, memory, transport, counters>>
            /\ UNCHANGED pending
            /\ Record(Op("deleteMessage", c, currentRoom, messageId),
                      DeleteMessageEmits(c, messageId, roomId, currentRoom))

\* the guards typing and stopTyping share: the payload names the socket's own
\* user and a cached room the user is in
TypingAllowed(c, roomId, userId) == ConnUser(c) = userId /\ isUserInRoom(c, roomId)

\* what typing emits: userTyping to the other non-client sockets of the group
TypingEmits(c, roomId, userId) ==
  IF TypingAllowed(c, roomId, userId)
  THEN EmitEach([x \in {y \in Group(roomId) \ {c} : RoleOf(ConnUser(y)) # "client"} |->
                Ev(x, "userTyping", roomId, ConnUser(c), FirstName(ConnUser(c)),
                              <<>>, {}, -1, 0)])
  ELSE <<>>

\* socket.on("typing")
Typing(c, roomId, userId) ==
  /\ c \in sockets
  /\ UNCHANGED vars

\* the sockets userStoppedTyping goes to: socket.to(roomId)
StopTypingRecipients(c, roomId) == Group(roomId) \ {c}

\* what stopTyping emits: userStoppedTyping with the user id to socket.to(roomId)
StopTypingEmits(c, roomId, userId) ==
  IF TypingAllowed(c, roomId, userId)
  THEN EmitEach([x \in StopTypingRecipients(c, roomId) |->
                Ev(x, "userStoppedTyping", roomId, ConnUser(c), "", <<>>,
                              {}, -1, 0)])
  ELSE <<>>

\* socket.on("stopTyping")
StopTyping(c, roomId, userId) ==
  /\ c \in sockets
  /\ UNCHANGED vars

----------------------------------------------------------------------------
(* HTTP surface; p is req.user as authMiddleware resolved it *)

\* const allowedRoles = ["CEO", "Manager", "HR"] of handleDeleteRoom
DeletePositions == {"CEO", "Manager", "HR"}

\* allowedRoles of uploadFile and uploadVoice
UploadPositions == {"Employee", "CEO", "Manager", "HR", "Client", "TeamLeader"}

\* messages of a room that carry an attachment of the given kind
Attachments(roomId, kind) ==
  {id \in DOMAIN messageCollection :
     messageCollection[id].roomId = roomId /\ messageCollection[id].kind = kind}

\* deleteS3VoicesByRoom throws for an explicit room the requester is not in
VoicePurgeThrows(p, roomId) ==
  StartsWithRoom(roomId) /\ ~Includes(roomCollection[roomId].users, p)

\* the status handleDeleteRoom answers
DeleteRoomStatus(p, roomId) ==
  IF PositionOf(p) \notin DeletePositions THEN 403
  ELSE IF roomId \notin DOMAIN roomCollection THEN 404
  ELSE IF roomCollection[roomId].companyId # CompanyOf(p) THEN 403
  ELSE IF VoicePurgeThrows(p, roomId) THEN 500
  ELSE 200

\* what the room deletion emits to the room's group: voicesDeleted, filesDeleted
\* and roomDeleted
HttpDeleteRoomEmits(p, roomId) ==
  LET notice(ev, n) == EmitEach([x \in Group(roomId) |->
                                Ev(x, ev, roomId, p, "", <<>>, {}, n, 0)])
  IN IF DeleteRoomStatus(p, roomId) # 200 THEN <<>>
     ELSE notice("voicesDeleted", Cardinality(Attachments(roomId, "voice")))
          \o notice("filesDeleted", Cardinality(Attachments(roomId, "file")))
          \o notice("roomDeleted", -1)

\* router.delete("/delete/room/:roomId"): handleDeleteRoom with
\* deleteS3VoicesByRoom and deleteS3FilesByRoom
HttpDeleteRoom(p, roomId) ==
  LET purged == {id \in DOMAIN messageCollection : messageCollection[id].roomId = roomId}
  IN IF DeleteRoomStatus(p, roomId) # 200
     THEN UNCHANGED vars
     ELSE /\ s3' = s3 \ (Attachments(roomId, "voice") \cup Attachments(roomId, "file"))
          /\ messageCollection' = [id \in DOMAIN messageCollection \ purged |->
                                     messageCollection[id]]
          /\ roomCollection' = Without(roomCollection, roomId)
          /\ UNCHANGED <<memory, transport, counters>>
          /\ UNCHANGED pending
          /\ Record(Op("httpDeleteRoom", p, roomId, 200), HttpDeleteRoomEmits(p, roomId))

\* the stored message of an upload; the object key is the id allocated with it
UploadedMessage(p, roomId, kind) ==
  [userId |-> p, username |-> FirstName(p), companyName |-> CompanyName(CompanyOf(p)),
   message |-> <<kind, "uploaded">>, timestamp |-> now + 1, updatedAt |-> -1,
   companyId |-> CompanyOf(p), roomId |-> roomId, kind |-> kind]

\* the status uploadFile / uploadVoice answers
UploadStatus(p, roomId) ==
  IF PositionOf(p) \notin UploadPositions THEN 403
  ELSE IF StartsWithRoom(roomId)
          /\ (roomId \notin DOMAIN roomCollection
              \/ ~Includes(roomCollection[roomId].users, p))
       THEN 403
  ELSE 200

\* the fan-out of an upload: per member through the member's own group when the
\* room has a record, else to the room's group
UploadFanout(p, roomId, ev, id, saved) ==
  IF roomId \in DOMAIN roomCollection
  THEN LET members == roomCollection[roomId].users
       IN Concat([i \in 1..Len(members) |->
                   EmitEach([x \in Group(members[i]) |->
                            MessageEv(x, ev, id, saved,
                                                 IF RoleOf(members[i]) = "client"
                                                    /\ saved.userId # members[i]
                                                 THEN saved.companyName
                                                 ELSE saved.username)])])
  ELSE EmitEach([x \in Group(roomId) |-> MessageEv(x, ev, id, saved, saved.username)])

\* what an upload emits: nothing when refused, else the fan-out of the new message
UploadEmits(p, roomId, kind) ==
  IF UploadStatus(p, roomId) # 200 THEN <<>>
  ELSE UploadFanout(p, roomId, IF kind = "file" THEN "newFile" ELSE "newVoice",
                    nextId, UploadedMessage(p, roomId, kind))

\* uploadFile / uploadVoice: the object is put before the room is authorized
Upload(p, roomId, kind) ==
  IF PositionOf(p) \notin UploadPositions
  THEN UNCHANGED vars
  ELSE /\ nextId <= MaxIds
       /\ nextId' = nextId + 1
       /\ s3' = s3 \cup {nextId}
       /\ IF UploadStatus(p, roomId) # 200
          THEN UNCHANGED <<messageCollection, now>>
          ELSE /\ now < MaxTime
               /\ messageCollection' = (nextId :> UploadedMessage(p, roomId, kind))
                                        @@ messageCollection
               /\ now' = now + 1
       /\ UNCHANGED <<roomCollection, memory, transport, nextRoom>>
       /\ UNCHANGED pending
       /\ Record(Op(IF kind = "file" THEN "uploadFile" ELSE "uploadVoice", p, roomId, nextId),
                 UploadEmits(p, roomId, kind))

\* router.post("/upload")
UploadFile(p, roomId) == Upload(p, roomId, "file")

\* router.post("/upload/voice")
UploadVoice(p, roomId) == Upload(p, roomId, "voice")

\* messageCollection.find({ roomId }).sort({ timestamp: 1 }): the ids in that order
RECURSIVE ByTimestamp(_)
ByTimestamp(ids) ==
  IF ids = {} THEN <<>>
  ELSE LET first == CHOOSE id \in ids :
                      \A other \in ids :
                        messageCollection[id].timestamp <= messageCollection[other].timestamp
       IN <<first>> \o ByTimestamp(ids \ {first})

\* the status getMessagesByRoom answers: the room must have a record that lists
\* the requester
MessagesStatus(p, roomId) ==
  IF roomId \notin DOMAIN roomCollection THEN 404
  ELSE IF ~Includes(roomCollection[roomId].users, p) THEN 403
  ELSE 200

\* one message as getMessagesByRoom formats it for the requester: a client sees
\* the company name on the messages of others
HistoryEntry(p, id) ==
  LET msg == messageCollection[id]
  IN [id |-> id, userId |-> msg.userId,
      username |-> IF RoleOf(p) = "client" /\ msg.userId # p
                   THEN msg.companyName ELSE msg.username,
      message |-> msg.message, roomId |-> msg.roomId,
      timestamp |-> msg.timestamp, updatedAt |-> msg.updatedAt]

\* the data of the getMessagesByRoom response, empty unless the status is 200
FormattedMessages(p, roomId) ==
  IF MessagesStatus(p, roomId) # 200 THEN <<>>
  ELSE LET ids == ByTimestamp({id \in DOMAIN messageCollection :
                                 messageCollection[id].roomId = roomId})
       IN [i \in 1..Len(ids) |-> HistoryEntry(p, ids[i])]

\* router.get("/messages"): a read
GetMessagesByRoom(p, roomId) == UNCHANGED vars

----------------------------------------------------------------------------
Next ==
  \/ Restart
  \/ \E c \in ActorConns \cup RefusedConns : Connect(c)
  \/ \E c \in Conns : Disconnect(c)
  \/ \E c \in Conns, roomName \in RoomNames, userIds \in UserIdLists :
        CreateRoom(c, roomName, userIds)
  \/ \E c \in Conns, roomId \in TargetRooms : JoinRoom(c, roomId)
  \/ \E c \in Conns, roomId \in TargetRooms : LeaveRoom(c, roomId)
  \/ \E c \in Conns, roomId \in TargetRooms : DeleteRoomSocket(c, roomId)
  \/ \E c \in Conns, message \in SendBodies, currentRoom \in TargetRooms \cup {""} :
        SendMessage(c, message, currentRoom)
  \/ \E c \in Conns, messageId \in MessageIds, newMessage \in EditBodies,
         currentRoom \in TargetRooms : EditMessage(c, messageId, newMessage, currentRoom)
  \/ \E c \in Conns, messageId \in MessageIds, currentRoom \in TargetRooms \cup {""} :
        DeleteMessage(c, messageId, currentRoom)
  \/ \E c \in Conns, roomId \in TargetRooms, userId \in TypingUserIds : Typing(c, roomId, userId)
  \/ \E c \in Conns, roomId \in TargetRooms, userId \in TypingUserIds : StopTyping(c, roomId, userId)
  \/ \E p \in Actors, roomId \in TargetRooms : HttpDeleteRoom(p, roomId)
  \/ \E p \in Actors, roomId \in TargetRooms : UploadFile(p, roomId)
  \/ \E p \in Actors, roomId \in TargetRooms : UploadVoice(p, roomId)
  \/ \E p \in Actors, roomId \in TargetRooms : GetMessagesByRoom(p, roomId)

Spec == Init /\ [][Next]_vars

----------------------------------------------------------------------------
(* sendMessage across its await: the handler suspends at insertOne, the      *)
(* write is applied or fails at the store, and the handler resumes later;    *)
(* the handlers that change the transport groups, the room records or the    *)
(* stored messages run in between.                                           *)

\* error.message of a failed insertOne
InsertError == "insertOne failed"

\* a sendMessage call suspended at `await messageCollection.insertOne(...)`: its
\* socket and whether that socket is still open, the room, formattedMessage, and
\* how the insert went (insertedId once it is acknowledged)
Call(c, roomId, doc) ==
  [by |-> c, open |-> TRUE, room |-> roomId, doc |-> doc, stage |-> "insertOne", id |-> 0]

\* socket.on("sendMessage") and handleSendMessage up to the insertOne
SendMessageCall(c, message, currentRoom) ==
  \E roomId \in ResolveRooms(c, currentRoom) :
    /\ c \in sockets
    /\ IF SendRefusal(c, message, roomId) # <<>>
       THEN UNCHANGED vars
       ELSE /\ Cardinality(pending) < MaxPending
            /\ now < MaxTime
            /\ pending' = pending \cup {Call(c, roomId, FormattedMessage(c, message, roomId))}
            /\ now' = now + 1
            /\ UNCHANGED <<db, memory, transport, nextRoom, nextId, outbox, lastOp>>

\* the store applies the insert and acknowledges it with the new id
InsertOneDone(call) ==
  /\ call \in pending
  /\ call.stage = "insertOne"
  /\ nextId <= MaxIds
  /\ messageCollection' = (nextId :> call.doc) @@ messageCollection
  /\ nextId' = nextId + 1
  /\ pending' = (pending \ {call}) \cup {[call EXCEPT !.stage = "inserted", !.id = nextId]}
  /\ UNCHANGED <<roomCollection, s3, memory, transport, nextRoom, now, outbox, lastOp>>

\* the write fails: the insertOne promise rejects and nothing is stored
InsertOneFails(call) ==
  /\ call \in pending
  /\ call.stage = "insertOne"
  /\ pending' = (pending \ {call}) \cup {[call EXCEPT !.stage = "rejected"]}
  /\ UNCHANGED <<core, outbox, lastOp>>

\* the resumed handler as it would be if it broadcast whatever the insert did
SendMessageResumeEmits_AlwaysBroadcast(call) ==
  EmitEach([x \in Group(call.room) |->
             MessageEv(x, "newMessage", call.id, call.doc,
                       NewMessageName(call.by, x, call.doc))])

\* what the handler emits when it resumes: after a rejected insert the two
\* errorMessage of the catch blocks, to the socket of the call if it is still
\* open; after an acknowledged one newMessage to the sockets now in the group
SendMessageResumeEmits(call) ==
  IF call.stage = "rejected"
  THEN IF call.open
       THEN ErrorTo(call.by, InsertError) \o ErrorTo(call.by, "Error sending message.")
       ELSE <<>>
  ELSE EmitEach([x \in Group(call.room) |->
                  MessageEv(x, "newMessage", call.id, call.doc,
                            NewMessageName(call.by, x, call.doc))])

\* the handler resumes after the insertOne settled and runs to its end
SendMessageResume(call) ==
  /\ call \in pending
  /\ call.stage \in {"inserted", "rejected"}
  /\ pending' = pending \ {call}
  /\ outbox' = SendMessageResumeEmits(call)
  /\ lastOp' = Op("sendMessage", call.by, call.room, call.id)
  /\ UNCHANGED core

NextIO ==
  \/ Restart
  \/ \E c \in ActorConns : Connect(c)
  \/ \E c \in Conns : Disconnect(c)
  \/ \E c \in Conns, roomName \in RoomNames, userIds \in UserIdLists :
        CreateRoom(c, roomName, userIds)
  \/ \E c \in Conns, roomId \in TargetRooms : LeaveRoom(c, roomId)
  \/ \E c \in Conns, message \in SendBodies, currentRoom \in TargetRooms \cup {""} :
        SendMessageCall(c, message, currentRoom)
  \/ \E call \in pending : InsertOneDone(call)
  \/ \E call \in pending : InsertOneFails(call)
  \/ \E call \in pending : SendMessageResume(call)
  \/ \E c \in Conns, messageId \in MessageIds, currentRoom \in TargetRooms \cup {""} :
        DeleteMessage(c, messageId, currentRoom)
  \/ \E p \in Actors, roomId \in TargetRooms : HttpDeleteRoom(p, roomId)

\* the program with sendMessage suspended at its await
SpecIO == Init /\ [][NextIO]_vars

----------------------------------------------------------------------------
(* The connection handler across its room fetch: roomCollection.find is      *)
(* issued when the connection is accepted, the store answers it or fails at  *)
(* some later moment, and the .then / .catch callback runs later still; the  *)
(* handlers that change room records, the cache and the groups run between.  *)

\* the fetch of a connection in flight; doc holds the records found
FetchCall(c) ==
  [by |-> c, open |-> TRUE, room |-> "", doc |-> <<>>, stage |-> "find", id |-> 0]

\* io.on("connection") up to the issue of roomCollection.find({ users: userId })
ConnectCall(c) ==
  /\ c \notin sockets
  /\ \A call \in pending : call.by # c
  /\ Authenticate(Cookies(c)).ok
  /\ Cardinality(sockets) < MaxLive
  /\ Cardinality(pending) < MaxPending
  /\ sockets' = sockets \cup {c}
  /\ socketRooms' = [socketRooms EXCEPT ![c] = {}]
  /\ pending' = pending \cup {FetchCall(c)}
  /\ UNCHANGED <<memory, db, counters>>
  /\ Record(Op("connect", c, "", 0), <<>>)

\* the store answers the find with the records that list the principal now
FindDone(call) ==
  /\ call \in pending
  /\ call.stage = "find"
  /\ pending' = (pending \ {call})
                \cup {[call EXCEPT !.stage = "found",
                                   !.doc = [r \in UserRooms(ConnUser(call.by)) |->
                                              roomCollection[r]]]}
  /\ UNCHANGED <<core, outbox, lastOp>>

\* the find is rejected
FindFails(call) ==
  /\ call \in pending
  /\ call.stage = "find"
  /\ pending' = (pending \ {call}) \cup {[call EXCEPT !.stage = "rejected"]}
  /\ UNCHANGED <<core, outbox, lastOp>>

\* what the callback would emit if it notified through the principal's group
\* (io.to(userId)) instead of the socket
FetchResumeEmits_ToPrincipal(call) ==
  IF ~call.open THEN <<>>
  ELSE IF call.stage = "rejected" THEN ErrorTo(call.by, "Failed to load rooms.")
  ELSE Concat(EmitEach([r \in DOMAIN call.doc |->
         EmitEach([x \in Group(ConnUser(call.by)) |->
           Ev(x, "roomCreated", r, call.doc[r].creator, "",
                       <<call.doc[r].roomName>>,
                       IF RoleOf(ConnUser(call.by)) = "client" THEN {}
                       ELSE Range(call.doc[r].users), -1, 0)])]))

\* what the callback emits: one roomCreated per record found, or the error of
\* the .catch, to the socket of the call; a closed socket delivers nothing
FetchResumeEmits(call) ==
  IF ~call.open THEN <<>>
  ELSE IF call.stage = "rejected" THEN ErrorTo(call.by, "Failed to load rooms.")
  ELSE EmitEach([r \in DOMAIN call.doc |->
                Ev(call.by, "roomCreated", r, call.doc[r].creator, "",
                              <<call.doc[r].roomName>>,
                              IF RoleOf(ConnUser(call.by)) = "client" THEN {}
                              ELSE Range(call.doc[r].users), -1, 0)])

\* the .then / .catch callback of the fetch: rooms.set and socket.join for each
\* record found
FetchResume(call) ==
  /\ call \in pending
  /\ call.stage \in {"found", "rejected"}
  /\ pending' = pending \ {call}
  /\ rooms' = IF call.stage = "rejected" THEN rooms
              ELSE [r \in DOMAIN rooms \cup DOMAIN call.doc |->
                      IF r \in DOMAIN call.doc THEN CacheEntry(call.doc[r]) ELSE rooms[r]]
  /\ socketRooms' = IF call.stage = "rejected" \/ ~call.open THEN socketRooms
                    ELSE [socketRooms EXCEPT ![call.by] = @ \cup DOMAIN call.doc]
  /\ UNCHANGED <<sockets, onlineUsersByRoom, db, counters>>
  /\ outbox' = FetchResumeEmits(call)
  /\ lastOp' = Op("roomFetch", call.by, "", 0)

NextFetch ==
  \/ Restart
  \/ \E c \in ActorConns : ConnectCall(c)
  \/ \E call \in pending : FindDone(call)
  \/ \E call \in pending : FindFails(call)
  \/ \E call \in pending : FetchResume(call)
  \/ \E c \in Conns : Disconnect(c)
  \/ \E c \in Conns, roomName \in RoomNames, userIds \in UserIdLists :
        CreateRoom(c, roomName, userIds)
  \/ \E c \in Conns, roomId \in TargetRooms : JoinRoom(c, roomId)
  \/ \E c \in Conns, roomId \in TargetRooms : LeaveRoom(c, roomId)
  \/ \E p \in Actors, roomId \in TargetRooms : HttpDeleteRoom(p, roomId)

\* the program with the connection-time room fetch in flight
SpecFetch == Init /\ [][NextFetch]_vars

----------------------------------------------------------------------------
(* handleDeleteRoom across its awaits: the gate, the voice purge, the file    *)
(* purge, the message purge and the room-record deletion are separate steps,  *)
(* and sends, uploads and a second deletion of the same room run in between.  *)

\* a room deletion under way: its requester, its room, the step it is about to
\* take, and n to tell two requests of one principal apart
CascadeCall(p, roomId, n) ==
  [by |-> p, open |-> TRUE, room |-> roomId, doc |-> <<>>, stage |-> "voices", id |-> n]

\* an event of the cascade to every connection of the room's group
Notice(p, roomId, ev, n) ==
  EmitEach([x \in Group(roomId) |-> Ev(x, ev, roomId, p, "", <<>>, {}, n, 0)])

\* the stored messages of a room
MessagesOf(roomId) ==
  {id \in DOMAIN messageCollection : messageCollection[id].roomId = roomId}

\* handleDeleteRoom up to its first purge: the position gate, the room lookup
\* and the tenant check
DeleteRoomBegin(p, roomId) ==
  IF \/ PositionOf(p) \notin DeletePositions
     \/ roomId \notin DOMAIN roomCollection
     \/ roomCollection[roomId].companyId # CompanyOf(p)
  THEN UNCHANGED vars
  ELSE /\ Cardinality(pending) < MaxCascades
       /\ pending' = pending \cup
            {CascadeCall(p, roomId,
                         CHOOSE n \in 1..MaxCascades : \A call \in pending : call.id # n)}
       /\ UNCHANGED <<core, outbox, lastOp>>

\* the call leaves through the catch of handleDeleteRoom with status 500
CascadeAborts(call) ==
  /\ pending' = pending \ {call}
  /\ outbox' = <<>>
  /\ lastOp' = Op("httpDeleteRoom", call.by, call.room, 500)
  /\ UNCHANGED core

\* one purge by attachment kind: the objects and their messages go, the group
\* is told the count, or the purge throws
AttachmentPurge(call, kind, ev, next) ==
  IF \/ call.room \notin DOMAIN roomCollection
     \/ kind = "voice" /\ VoicePurgeThrows(call.by, call.room)
  THEN CascadeAborts(call)
  ELSE /\ s3' = s3 \ Attachments(call.room, kind)
       /\ messageCollection' = [id \in DOMAIN messageCollection
                                         \ Attachments(call.room, kind) |->
                                  messageCollection[id]]
       /\ pending' = (pending \ {call}) \cup {[call EXCEPT !.stage = next]}
       /\ outbox' = Notice(call.by, call.room, ev,
                           Cardinality(Attachments(call.room, kind)))
       /\ lastOp' = Op(ev, call.by, call.room, 0)
       /\ UNCHANGED <<roomCollection, memory, transport, counters>>

\* await deleteS3VoicesByRoom(...)
VoicePurge(call) ==
  /\ call \in pending
  /\ call.stage = "voices"
  /\ AttachmentPurge(call, "voice", "voicesDeleted", "files")

\* await deleteS3FilesByRoom(...)
FilePurge(call) ==
  /\ call \in pending
  /\ call.stage = "files"
  /\ AttachmentPurge(call, "file", "filesDeleted", "messages")

\* await messageCollection.deleteMany({ roomId })
MessagePurge(call) ==
  /\ call \in pending
  /\ call.stage = "messages"
  /\ messageCollection' = [id \in DOMAIN messageCollection \ MessagesOf(call.room) |->
                             messageCollection[id]]
  /\ pending' = (pending \ {call}) \cup {[call EXCEPT !.stage = "room"]}
  /\ UNCHANGED <<roomCollection, s3, memory, transport, counters, outbox, lastOp>>

\* what the last step would emit without the deletedCount check
RoomDeleteEmits_Always(call) == Notice(call.by, call.room, "roomDeleted", -1)

\* what the last step emits: roomDeleted to the group, if deleteOne deleted
RoomDeleteEmits(call) ==
  IF call.room \in DOMAIN roomCollection
  THEN Notice(call.by, call.room, "roomDeleted", -1)
  ELSE <<>>

\* await roomCollection.deleteOne({ roomId }), the deletedCount check, the
\* broadcast and the response
RoomDelete(call) ==
  /\ call \in pending
  /\ call.stage = "room"
  /\ roomCollection' = Without(roomCollection, call.room)
  /\ pending' = pending \ {call}
  /\ outbox' = RoomDeleteEmits(call)
  /\ lastOp' = Op("httpDeleteRoom", call.by, call.room,
                  IF call.room \in DOMAIN roomCollection THEN 200 ELSE 500)
  /\ UNCHANGED <<messageCollection, s3, memory, transport, counters>>

NextCascade ==
  \/ \E c \in ActorConns : Connect(c)
  \/ \E c \in Conns : Disconnect(c)
  \/ \E c \in Conns, roomName \in RoomNames, userIds \in UserIdLists :
        CreateRoom(c, roomName, userIds)
  \/ \E c \in Conns, message \in SendBodies, currentRoom \in TargetRooms \cup {""} :
        SendMessage(c, message, currentRoom)
  \/ \E p \in Actors, roomId \in TargetRooms : UploadFile(p, roomId)
  \/ \E p \in Actors, roomId \in TargetRooms : UploadVoice(p, roomId)
  \/ \E p \in Actors, roomId \in TargetRooms : DeleteRoomBegin(p, roomId)
  \/ \E call \in pending : VoicePurge(call)
  \/ \E call \in pending : FilePurge(call)
  \/ \E call \in pending : MessagePurge(call)
  \/ \E call \in pending : RoomDelete(call)

\* the program with room deletions under way
SpecCascade == Init /\ [][NextCascade]_vars

----------------------------------------------------------------------------
(* sendMessage with handleSendMessage of controller/message.controller.js,   *)
(* the file socket.js imports by path: this handleSendMessage broadcasts the  *)
(* stored message itself and returns nothing.                                 *)

\* formattedMessage of message.controller.js: no companyName
ControllerFormattedMessage(c, message, roomId) ==
  LET u == ConnUser(c)
  IN [userId |-> u, username |-> FirstName(u), message |-> Trim(message),
      timestamp |-> now + 1, updatedAt |-> -1, companyId |-> CompanyOf(u),
      roomId |-> roomId, kind |-> "text"]

\* what sendMessage emits with this controller: the refusals as before; for a
\* stored message the controller's socket.to(targetRoom).emit and socket.emit
\* of newMessage, then, handleSendMessage having returned undefined, the
\* errorMessage of socket.js's catch
ControllerSendMessageEmits(c, message, roomId) ==
  LET refusal == SendRefusal(c, message, roomId)
      saved == ControllerFormattedMessage(c, message, roomId)
  IN IF refusal # <<>>
     THEN Concat([i \in 1..Len(refusal) |-> ErrorTo(c, refusal[i])])
     ELSE EmitEach([x \in Group(roomId) \ {c} |->
                     MessageEv(x, "newMessage", nextId, saved, saved.username)])
          \o <<MessageEv(c, "newMessage", nextId, saved, saved.username)>>
          \o ErrorTo(c, "Error sending message.")

\* socket.on("sendMessage") with this handleSendMessage
ControllerSendMessage(c, message, currentRoom) ==
  \E roomId \in ResolveRooms(c, currentRoom) :
    /\ c \in sockets
    /\ IF SendRefusal(c, message, roomId) # <<>>
       THEN UNCHANGED vars
       ELSE /\ nextId <= MaxIds
            /\ now < MaxTime
            /\ messageCollection' = (nextId :> ControllerFormattedMessage(c, message, roomId))
                                     @@ messageCollection
            /\ nextId' = nextId + 1
            /\ now' = now + 1
            /\ UNCHANGED <<roomCollection, s3, memory, transport, nextRoom>>
            /\ UNCHANGED pending
            /\ Record(Op("sendMessage", c, roomId, nextId),
                      ControllerSendMessageEmits(c, message, roomId))

NextController ==
  \/ \E c \in ActorConns : Connect(c)
  \/ \E c \in Conns : Disconnect(c)
  \/ \E c \in Conns, roomName \in RoomNames, userIds \in UserIdLists :
        CreateRoom(c, roomName, userIds)
  \/ \E c \in Conns, roomId \in TargetRooms : JoinRoom(c, roomId)
  \/ \E c \in Conns, roomId \in TargetRooms : LeaveRoom(c, roomId)
  \/ \E c \in Conns, message \in SendBodies, currentRoom \in TargetRooms \cup {""} :
        ControllerSendMessage(c, message, currentRoom)

\* the program with the controller file of that path
SpecController == Init /\ [][NextController]_vars

----------------------------------------------------------------------------
(* The message relay with both clients of tenant T1 connected *)

NextRelay ==
  \/ \E c \in Conns : Connect(c)
  \/ \E c \in Conns : Disconnect(c)
  \/ \E c \in Conns, roomName \in RoomNames, userIds \in UserIdLists :
        CreateRoom(c, roomName, userIds)
  \/ \E c \in Conns, message \in SendBodies, currentRoom \in TargetRooms \cup {""} :
        SendMessage(c, message, currentRoom)
  \/ \E p \in Users, roomId \in TargetRooms : UploadFile(p, roomId)
  \/ \E p \in Users, roomId \in TargetRooms : UploadVoice(p, roomId)
  \/ \E p \in Users, roomId \in TargetRooms : GetMessagesByRoom(p, roomId)

SpecRelay == Init /\ [][NextRelay]_vars

----------------------------------------------------------------------------
(* Properties *)

\* the events of a sequence of emissions
Events(emits) == {emits[i] : i \in 1..Len(emits)}

\* how many events named ev a sequence of emissions holds for connection x
Count(emits, ev, x) ==
  Cardinality({i \in 1..Len(emits) : emits[i].ev = ev /\ emits[i].to = x})

\* C1: in every reachable state the principals in an explicit room's presence
\* map are among the persisted members of that room, and a room without a
\* persisted record has no principal in presence.
C1_PresenceWithinMembership ==
  \A r \in DOMAIN onlineUsersByRoom :
    IF r \in DOMAIN roomCollection
    THEN onlineUsersByRoom[r] \subseteq Range(roomCollection[r].users)
    ELSE onlineUsersByRoom[r] = {}

\* C2: when a principal has two live connections in a room's group, is present
\* in the room and both connections are admitted by joinRoom (a joinRoom by
\* either is then a step that changes nothing, so both may have performed it),
\* the disconnect of one of them leaves the principal present and every
\* identity list it broadcasts for the room still names the principal.
C2_SecondConnectionKeepsPresence ==
  [][\A c \in Conns, other \in Conns, r \in ExplicitRoomIds :
       ( /\ other # c
         /\ ConnUser(other) = ConnUser(c)
         /\ {c, other} \subseteq sockets
         /\ r \in socketRooms[c] \cap socketRooms[other]
         /\ JoinAllowed(c, r) /\ JoinAllowed(other, r)
         /\ r \in DOMAIN onlineUsersByRoom
         /\ ConnUser(c) \in onlineUsersByRoom[r]
         /\ Disconnect(c) )
       => /\ r \in DOMAIN onlineUsersByRoom'
          /\ ConnUser(c) \in onlineUsersByRoom'[r]
          /\ \A e \in Events(outbox') :
               (e.ev = "onlineUsersUpdate" /\ e.room = r /\ RoleOf(ConnUser(e.to)) # "client")
               => ConnUser(c) \in e.users]_vars

\* the presence and typing events
PresenceEvents ==
  {"onlineUsersUpdate", "joinConfirmation", "userJoined", "userTyping", "userStoppedTyping"}

\* the event carries the raw identity of a principal other than its recipient
NamesAnother(e) ==
  \/ e.userId \notin {"", ConnUser(e.to)}
  \/ e.username \notin {"", FirstName(ConnUser(e.to))}
  \/ e.users \ {ConnUser(e.to)} # {}

\* C3: whatever a live connection does next (joinRoom, leaveRoom, typing,
\* stopTyping, disconnect), no presence or typing event that a Client connection
\* receives carries the user id, the name or the identity list of another
\* principal.
C3_ClientSeesCountsOnly ==
  \A c \in sockets :
    \A emits \in {JoinRoomEmits(c, r) : r \in TargetRooms}
                 \cup {LeaveRoomEmits(c, r) : r \in TargetRooms}
                 \cup {TypingEmits(c, r, ConnUser(c)) : r \in TargetRooms}
                 \cup {StopTypingEmits(c, r, ConnUser(c)) : r \in TargetRooms}
                 \cup {DisconnectEmits(c)} :
      \A e \in Events(emits) :
        (e.ev \in PresenceEvents /\ RoleOf(ConnUser(e.to)) = "client") => ~NamesAnother(e)

\* C4: a room deletion requested by a principal other than the room's creator
\* leaves the room record, the messages and the attachment objects unchanged.
C4_NonCreatorDeletionLeavesRoom ==
  [][\A p \in Users, r \in ExplicitRoomIds :
       ( /\ r \in DOMAIN roomCollection
         /\ roomCollection[r].creator # p
         /\ HttpDeleteRoom(p, r) )
       => UNCHANGED db]_vars

\* C5: in every reachable state a deletion of a persisted room requested by the
\* room's creator is carried out (status 200) and announces roomDeleted exactly
\* once to every connection of the room's group.
C5_CreatorDeletionGoesThrough ==
  \A r \in DOMAIN roomCollection :
    /\ DeleteRoomStatus(roomCollection[r].creator, r) = 200
    /\ \A x \in Group(r) :
         Count(HttpDeleteRoomEmits(roomCollection[r].creator, r), "roomDeleted", x) = 1

\* C6: after an accepted sendMessage to a persisted explicit room, every live
\* connection of every persisted member of the room has received a newMessage
\* whose userId is the sender and whose message is the trimmed body, whether or
\* not that member ever emitted joinRoom.
C6_MembersReceiveNewMessage ==
  (lastOp.op = "sendMessage" /\ lastOp.room \in DOMAIN roomCollection)
  => \A x \in sockets :
       Includes(roomCollection[lastOp.room].users, ConnUser(x))
       => \E e \in Events(outbox) :
            /\ e.to = x
            /\ e.ev = "newMessage"
            /\ e.room = lastOp.room
            /\ e.userId = ConnUser(lastOp.by)
            /\ e.text = Hello

\* C6 happens: A created the room with B while B was connected, B never joined
\* (nobody is present), A's "hello" was accepted and B's connection received it
C6_Witness ==
  /\ lastOp = Op("sendMessage", "c1", RoomId(1), 2)
  /\ RoomId(1) \in DOMAIN roomCollection
  /\ roomCollection[RoomId(1)].users = <<"A", "B">>
  /\ RoomId(1) \notin DOMAIN onlineUsersByRoom
  /\ \E e \in Events(outbox) :
       e.to = "c3" /\ e.ev = "newMessage" /\ e.userId = "A" /\ e.text = Hello

C8_LeaveUpdatesMembership ==
  [][\A c \in Conns, r \in ExplicitRoomIds :
       (LeaveRefusal(c, r) = "" /\ LeaveRoom(c, r))
       => LET remaining == SelectSeq(roomCollection[r].users,
                                     LAMBDA x : x # ConnUser(c))
          IN IF remaining # <<>>
             THEN /\ r \in DOMAIN roomCollection'
                  /\ roomCollection'[r] = [roomCollection[r] EXCEPT !.users = remaining]
                  /\ r \in DOMAIN rooms'
                  /\ rooms'[r].users = remaining
             ELSE /\ r \notin DOMAIN roomCollection'
                  /\ r \notin DOMAIN rooms'
                  /\ r \notin DOMAIN onlineUsersByRoom']_vars

\* C8 happens: non-creator A has left the room whose membership was [B, A]; the
\* record persists with membership [B]
C8_Witness ==
  /\ lastOp.op = "leaveRoom"
  /\ ConnUser(lastOp.by) = "A"
  /\ \E e \in Events(outbox) : e.ev = "roomLeft" /\ e.to = lastOp.by
  /\ RoomId(1) \in DOMAIN roomCollection
  /\ roomCollection[RoomId(1)].creator = "B"
  /\ roomCollection[RoomId(1)].users = <<"B">>

\* C9: in every reachable state every persisted explicit room lists no principal
\* twice, lists its creator, and has only members of the one tenant the room
\* belongs to.
C9_RoomWellFormed ==
  \A r \in DOMAIN roomCollection :
    LET room == roomCollection[r]
    IN /\ \A i, j \in 1..Len(room.users) : room.users[i] = room.users[j] => i = j
       /\ Includes(room.users, room.creator)
       /\ \A u \in Range(room.users) : u \in Users /\ CompanyOf(u) = room.companyId

\* C9 happens: B has created a room from a list that names A and B itself; the
\* record lists the creator once, first
C9_Witness ==
  /\ lastOp.op = "createRoom"
  /\ ConnUser(lastOp.by) = "B"
  /\ lastOp.room \in DOMAIN roomCollection
  /\ roomCollection[lastOp.room].users = <<"B", "A">>
  /\ roomCollection[lastOp.room].creator = "B"

\* C10: no step changes the userId, the roomId or the timestamp of a stored
\* message; a step changes its body or its edit timestamp only if it is an
\* editMessage of that message by a connection of its author, and then the
\* edit timestamp is set to the time of the edit.
C10_MessageImmutability ==
  [][\A id \in DOMAIN messageCollection \cap DOMAIN messageCollection' :
       LET m == messageCollection[id]
           edited == messageCollection'[id]
       IN /\ edited.userId = m.userId
          /\ edited.roomId = m.roomId
          /\ edited.timestamp = m.timestamp
          /\ (edited.message # m.message \/ edited.updatedAt # m.updatedAt)
             => /\ lastOp' = Op("editMessage", lastOp'.by, m.roomId, id)
                /\ ConnUser(lastOp'.by) = m.userId
                /\ edited.updatedAt = now'
                /\ edited.updatedAt > m.timestamp]_vars

\* C10 happens: an author has edited a message; the body is the new one, the
\* edit timestamp is set and later than the creation timestamp
C10_Witness ==
  /\ lastOp.op = "editMessage"
  /\ lastOp.n \in DOMAIN messageCollection
  /\ messageCollection[lastOp.n].userId = ConnUser(lastOp.by)
  /\ messageCollection[lastOp.n].message = Bye
  /\ messageCollection[lastOp.n].updatedAt = now
  /\ messageCollection[lastOp.n].timestamp < now

\* C11: after an accepted sendMessage to any room the sender may send to (an
\* explicit room or the sender's company room), the sender's fetch of that
\* room's message history succeeds and holds the new message with a body
\* identical to the one sent.
C11_SendThenFetchReturnsBody ==
  [][\A c \in Conns, message \in SendBodies, currentRoom \in TargetRooms \cup {""},
        r \in TargetRooms :
       ( /\ SendMessage(c, message, currentRoom)
         /\ lastOp' = Op("sendMessage", c, r, nextId)
         /\ nextId \in DOMAIN messageCollection' )
       => /\ MessagesStatus(ConnUser(c), r)' = 200
          /\ \E i \in DOMAIN FormattedMessages(ConnUser(c), r)' :
               /\ FormattedMessages(ConnUser(c), r)'[i].id = nextId
               /\ FormattedMessages(ConnUser(c), r)'[i].message = message]_vars

\* the stored copy of a call's document, if any (timestamps tell documents apart)
Stored(call) == {id \in DOMAIN messageCollection : messageCollection[id] = call.doc}

\* C12: a send whose insert has not been acknowledged has no stored document
\* while it is rejected and carries no id; a call holds an id only once the
\* document was stored under it; the step that emits for a send emits newMessage
\* only for a call whose insert was acknowledged in an earlier step, with that
\* id, and writes nothing itself; and after a failed insert the step emits no
\* newMessage to anyone, only errorMessage to the originating connection, at
\* least one if it is still open, and nothing of the call is stored.
C12_PersistBeforeBroadcast ==
  /\ [](\A call \in pending :
          /\ call.stage = "rejected" => (call.id = 0 /\ Stored(call) = {})
          /\ call.stage = "insertOne" => (call.id = 0 /\ Stored(call) = {})
          /\ call.stage = "inserted" => (call.id \in 1..(nextId - 1)))
  /\ [][\A call \in pending :
          /\ (call.stage = "insertOne" /\ InsertOneDone(call))
             => /\ Stored(call)' = {nextId}
                /\ outbox' = outbox
          /\ SendMessageResume(call)
             => /\ messageCollection' = messageCollection
                /\ IF call.stage = "inserted"
                   THEN \A e \in Events(outbox') : e.ev = "newMessage" /\ e.msg = call.id
                   ELSE /\ \A e \in Events(outbox') : e.ev = "errorMessage" /\ e.to = call.by
                        /\ call.open => outbox' # <<>>
                        /\ Stored(call)' = {}]_vars

\* C12 happens: A's send to the company room failed at the insert while B's
\* connection was in the room's group; A's connection got the errors, B's got
\* nothing, and no message is stored
C12_Witness ==
  /\ lastOp = Op("sendMessage", "c1", CompanyRoomOf("A"), 0)
  /\ {"c1", "c3"} \subseteq sockets
  /\ outbox = ErrorTo("c1", InsertError) \o ErrorTo("c1", "Error sending message.")
  /\ messageCollection = <<>>
  /\ pending = {}

\* C13: whatever accepted sendMessage a live connection issues next, each
\* recipient of its newMessage gets the company name of the author in place of
\* the author's name exactly when the recipient is a client and is not the
\* author; every other recipient, the sender included, gets the author's name.
C13_BrandedExactlyForOtherClients ==
  \A c \in sockets, message \in SendBodies, r \in TargetRooms :
    SendRefusal(c, message, r) = <<>>
    => \A e \in Events(SendMessageEmits(c, message, r)) :
         e.ev = "newMessage"
         => e.username = IF RoleOf(ConnUser(e.to)) = "client" /\ ConnUser(e.to) # ConnUser(c)
                         THEN CompanyName(CompanyOf(ConnUser(c)))
                         ELSE FirstName(ConnUser(c))

\* C14: a leaveRoom by the creator of a persisted room is answered with an
\* errorMessage to the creator and without roomLeft or userLeftRoom, and no step
\* of it changes the room's record: the creator stays in the persisted
\* membership.
C14_CreatorLeaveRejected ==
  /\ [](\A c \in sockets, r \in DOMAIN roomCollection :
          roomCollection[r].creator = ConnUser(c)
          => /\ \E e \in Events(LeaveRoomEmits(c, r)) :
                  e.ev = "errorMessage" /\ e.to = c
                  /\ e.text = <<"Room creator cannot leave the room">>
             /\ \A e \in Events(LeaveRoomEmits(c, r)) : e.ev \notin {"roomLeft", "userLeftRoom"})
  /\ [][\A c \in Conns, r \in ExplicitRoomIds :
          ( /\ r \in DOMAIN roomCollection
            /\ roomCollection[r].creator = ConnUser(c)
            /\ LeaveRoom(c, r) )
          => /\ roomCollection' = roomCollection
             /\ Includes(roomCollection'[r].users, ConnUser(c))]_vars

\* C14 happens: creator A joined its room and then asked to leave it; the error
\* went to A's connection and the record still lists A
C14_Witness ==
  /\ lastOp = Op("leaveRoom", "c1", RoomId(1), 0)
  /\ RoomId(1) \in DOMAIN roomCollection
  /\ roomCollection[RoomId(1)].creator = "A"
  /\ Includes(roomCollection[RoomId(1)].users, "A")
  /\ \E e \in Events(outbox) :
       e.ev = "errorMessage" /\ e.to = "c1"
       /\ e.text = <<"Room creator cannot leave the room">>

\* what a live connection would be answered if its next request is refused, for
\* each of createRoom, joinRoom, leaveRoom, sendMessage, editMessage,
\* deleteMessage and each input
RefusalEmits(c) ==
  {CreateRoomEmits(c, roomName, userIds, first) :
     <<roomName, userIds, first>> \in
       {t \in RoomNames \X UserIdLists \X FirstSockets : CreateRefusal(c, t[1], t[2]) # ""}}
  \cup {JoinRoomEmits(c, r) : r \in {x \in TargetRooms : ~JoinAllowed(c, x)}}
  \cup {LeaveRoomEmits(c, r) : r \in {x \in TargetRooms : LeaveRefusal(c, x) # ""}}
  \cup {SendMessageEmits(c, t[1], t[2]) :
          t \in {x \in SendBodies \X TargetRooms : SendRefusal(c, x[1], x[2]) # <<>>}}
  \cup {EditMessageEmits(c, t[1], t[2], t[3]) :
          t \in {x \in MessageIds \X EditBodies \X TargetRooms :
                   EditMessageRefusal(c, x[1], x[2], x[3]) # ""}}
  \cup {DeleteMessageEmits(c, t[1], t[2], t[2]) :
          t \in {x \in MessageIds \X TargetRooms :
                   DeleteMessageRefusal(c, x[1], x[2], x[2]) # ""}}

\* C15: a refused createRoom, joinRoom, leaveRoom, sendMessage, editMessage or
\* deleteMessage emits errorMessage to the originating connection and nothing
\* to anyone else, and a refused leaveRoom (creator, non-member, unknown room)
\* leaves the connections, persistence, the room cache and the presence maps
\* as they were: the caller stays present and no onlineUsersUpdate goes out.
C15_RefusalsChangeNothing ==
  /\ [](\A c \in sockets :
          \A emits \in RefusalEmits(c) :
            /\ emits # <<>>
            /\ \A e \in Events(emits) : e.ev = "errorMessage" /\ e.to = c)
  /\ [][\A c \in Conns, r \in TargetRooms :
          (LeaveRefusal(c, r) # "" /\ LeaveRoom(c, r))
          => UNCHANGED <<sockets, db, memory>>]_vars

\* the principals of the tenant of connection c
TenantOf(c) == {u \in Users : CompanyOf(u) = CompanyOf(ConnUser(c))}

\* C16: a createRoom whose userIds name at least one id that is not a principal
\* of the creator's tenant is answered with errorMessage to the creator only,
\* without roomCreated or newMessage, and no step of it persists a room or a
\* message, changes the room cache or adds a connection to a transport group
\* (a step that changes any of these is not a step of such a createRoom).
C16_ForeignMemberRejected ==
  /\ [](\A c \in sockets, roomName \in RoomNames, userIds \in UserIdLists,
           first \in FirstSockets :
          ~(Range(userIds) \subseteq TenantOf(c))
          => /\ CreateRoomEmits(c, roomName, userIds, first) # <<>>
             /\ \A e \in Events(CreateRoomEmits(c, roomName, userIds, first)) :
                  e.ev = "errorMessage" /\ e.to = c)
  /\ [][\/ UNCHANGED <<roomCollection, messageCollection, rooms, socketRooms>>
        \/ \A c \in sockets, roomName \in RoomNames, userIds \in UserIdLists :
             ~(Range(userIds) \subseteq TenantOf(c)) => ~CreateRoom(c, roomName, userIds)]_vars

\* C16 happens: A and C, of different tenants, are both connected and no room
\* exists; A's createRoom naming B and C is answered with the error, and C's
\* naming B likewise
C16_Witness ==
  /\ {"c1", "c4"} \subseteq sockets
  /\ roomCollection = <<>>
  /\ rooms = <<>>
  /\ \A first \in FirstSockets :
       /\ CreateRoomEmits("c1", "team", <<"B", "C">>, first)
            = ErrorTo("c1", "Some users do not belong to your company.")
       /\ CreateRoomEmits("c4", "team", <<"B">>, first)
            = ErrorTo("c4", "Some users do not belong to your company.")
       /\ CreateRoomEmits("c1", "team", <<"Z">>, first)
            = ErrorTo("c1", "Some users do not belong to your company.")

\* the rooms the principal of c may send to: its own company room and the
\* persisted explicit rooms that list it
MaySendTo(c, r) ==
  \/ r = CompanyRoomOf(ConnUser(c))
  \/ r \in DOMAIN roomCollection /\ Includes(roomCollection[r].users, ConnUser(c))

\* C17: a sendMessage is accepted only for the sender's own company room or a
\* persisted explicit room that lists the sender; a non-blank body to the own
\* company room is always accepted; and a send to any other room is answered
\* with errors to the sender only and no step of it stores a message.
C17_SendOnlyToOwnRooms ==
  /\ [](\A c \in sockets, message \in SendBodies, r \in TargetRooms :
          /\ SendRefusal(c, message, r) = <<>> => MaySendTo(c, r)
          /\ (r = CompanyRoomOf(ConnUser(c)) /\ Trim(message) # <<>>)
             => SendRefusal(c, message, r) = <<>>
          /\ ~MaySendTo(c, r)
             => \A e \in Events(SendMessageEmits(c, message, r)) :
                  e.ev = "errorMessage" /\ e.to = c)
  /\ [][\/ UNCHANGED messageCollection
        \/ \A c \in sockets, message \in SendBodies, r \in TargetRooms :
             ~MaySendTo(c, r) => ~SendMessage(c, message, r)]_vars

\* C18: an editMessage by a connection that is not of the message's author, or
\* that names a room other than the message's room, is answered with an
\* errorMessage to that connection only; and a step changes a stored message
\* only as an editMessage that names the message's own room and comes from a
\* live connection of its author.
C18_EditOnlyByAuthorInRoom ==
  /\ [](\A c \in sockets, id \in DOMAIN messageCollection, newMessage \in EditBodies,
           r \in TargetRooms :
          (ConnUser(c) # messageCollection[id].userId \/ r # messageCollection[id].roomId)
          => /\ EditMessageRefusal(c, id, newMessage, r) # ""
             /\ \A e \in Events(EditMessageEmits(c, id, newMessage, r)) :
                  e.ev = "errorMessage" /\ e.to = c)
  /\ [][\/ UNCHANGED messageCollection
        \/ \A id \in DOMAIN messageCollection \cap DOMAIN messageCollection' :
             messageCollection'[id] # messageCollection[id]
             => /\ lastOp'.op = "editMessage"
                /\ lastOp'.n = id
                /\ lastOp'.room = messageCollection[id].roomId
                /\ lastOp'.by \in sockets
                /\ ConnUser(lastOp'.by) = messageCollection[id].userId]_vars

\* C18 happens: A has edited its message in the explicit room while member B is
\* connected; B's edit of it is refused for authorship and A's edit of it under
\* the company room's name is refused for the room
C18_Witness ==
  /\ lastOp = Op("editMessage", "c1", RoomId(1), 2)
  /\ {"c1", "c3"} \subseteq sockets
  /\ isUserInRoom("c3", RoomId(1))
  /\ messageCollection[2].userId = "A"
  /\ messageCollection[2].roomId = RoomId(1)
  /\ messageCollection[2].message = Bye
  /\ EditMessageRefusal("c3", 2, Hello, RoomId(1)) = "You are not authorized to edit this message"
  /\ EditMessageRefusal("c1", 2, Hello, CompanyRoomOf("A")) = "Message not found in this room"

\* C19: whatever deleteMessage a live connection issues next, if it names a
\* stored message, that message's room and comes from the author's connection
\* and is let through, it emits exactly one messageDeleted with the id to each
\* connection of the room's group and to the requester and nothing else, and
\* otherwise it is refused and emits no messageDeleted; and a step of
\* deleteMessage removes only the message it names, found in the room it names,
\* and only for a live connection of its author.
C19_DeleteOnlyByAuthorInRoom ==
  /\ [](\A c \in sockets, id \in MessageIds, r \in TargetRooms \cup {""} :
          LET emits == DeleteMessageEmits(c, id, IF r = "" THEN CompanyRoomOf(ConnUser(c)) ELSE r, r)
              refusal == DeleteMessageRefusal(c, id, IF r = "" THEN CompanyRoomOf(ConnUser(c)) ELSE r, r)
          IN /\ refusal = ""
                => /\ id \in DOMAIN messageCollection
                   /\ messageCollection[id].roomId = r
                   /\ messageCollection[id].userId = ConnUser(c)
                   /\ \A x \in Group(r) \cup {c} : Count(emits, "messageDeleted", x) = 1
                   /\ \A e \in Events(emits) :
                        e.ev = "messageDeleted" /\ e.msg = id /\ e.to \in Group(r) \cup {c}
             /\ refusal # ""
                => \A e \in Events(emits) : e.ev = "errorMessage" /\ e.to = c)
  /\ [][\/ UNCHANGED messageCollection
        \/ lastOp'.op # "deleteMessage"
        \/ \A id \in DOMAIN messageCollection :
             IF id = lastOp'.n
             THEN /\ id \notin DOMAIN messageCollection'
                  /\ lastOp'.room = messageCollection[id].roomId
                  /\ lastOp'.by \in sockets
                  /\ ConnUser(lastOp'.by) = messageCollection[id].userId
             ELSE /\ id \in DOMAIN messageCollection'
                  /\ messageCollection'[id] = messageCollection[id]]_vars

\* C19 happens: A has deleted its message in the explicit room while member B is
\* connected; both connections got one messageDeleted with the id, and the
\* room's system message is still stored
C19_Witness ==
  /\ lastOp = Op("deleteMessage", "c1", RoomId(1), 2)
  /\ {"c1", "c3"} \subseteq sockets
  /\ Group(RoomId(1)) = {"c1", "c3"}
  /\ DOMAIN messageCollection = {1}
  /\ Count(outbox, "messageDeleted", "c1") = 1
  /\ Count(outbox, "messageDeleted", "c3") = 1
  /\ \A e \in Events(outbox) : e.msg = 2

\* C20: whatever typing or stopTyping a live connection issues next, it emits
\* something only if the emitter may use the room (its own company room or a
\* persisted explicit room that lists it), it emits nothing to the emitting
\* connection, and every event it emits goes to a connection that is in the
\* room's transport group.
C20_TypingOnlyByMembersToGroup ==
  \A c \in sockets, r \in TargetRooms, userId \in Users :
    \A emits \in {TypingEmits(c, r, userId), StopTypingEmits(c, r, userId)} :
      /\ emits # <<>> => MaySendTo(c, r) /\ userId = ConnUser(c)
      /\ \A e \in Events(emits) :
           /\ e.to # c
           /\ e.to \in Group(r)
           /\ e.ev \in {"userTyping", "userStoppedTyping"}

\* the requests handleDeleteRoom lets through to its cascade: an allowed
\* position, a stored room, the requester's own tenant
CascadeStarts(p, roomId) ==
  /\ PositionOf(p) \in DeletePositions
  /\ roomId \in DOMAIN roomCollection
  /\ roomCollection[roomId].companyId = CompanyOf(p)

C22_NoSilentDrop ==
  \A c \in sockets :
    LET signalled(emits) == \E e \in Events(emits) : e.ev = "errorMessage" /\ e.to = c
    IN /\ \A emits \in RefusalEmits(c) : signalled(emits)
       /\ \A r \in TargetRooms, userId \in TypingUserIds :
            ~TypingAllowed(c, r, userId)
            => /\ signalled(TypingEmits(c, r, userId))
               /\ signalled(StopTypingEmits(c, r, userId))

\* the handshakes whose identity cannot be resolved: no credential, a credential
\* that does not verify, an id that is in no principal collection, a stored
\* position that is not an allowed one
FailsResolution(c) ==
  LET tokens == {Cookies(c)[slot] : slot \in Range(TokenMap)} \ {""}
  IN \/ tokens = {}
     \/ Forged \in tokens
     \/ \E id \in tokens :
          \/ \A role \in Range(TokenMap) : id \notin Collection(role)
          \/ StoredPosition(id) \notin {"Employee", "CEO", "Manager", "HR", "Client",
                                        "TeamLeader", "Admin"}

\* C23: a handshake whose identity cannot be resolved is refused with a reason,
\* its connection is never among the live ones and in no transport group, and
\* no step that changes the room cache, the presence maps or anything else is
\* a step by that connection.
C23_FailedResolutionCreatesNothing ==
  /\ [](\A c \in Conns \cup RefusedConns :
          FailsResolution(c)
          => /\ c \notin sockets
             /\ ~Authenticate(Cookies(c)).ok
             /\ Authenticate(Cookies(c)).reason # ""
             /\ \A r \in TargetRooms \cup CompanyRooms \cup Users : c \notin Group(r))
  /\ [][\/ UNCHANGED lastOp
        \/ lastOp'.by \notin Conns \cup RefusedConns
        \/ ~FailsResolution(lastOp'.by)]_vars

\* C23 happens: while A and B are connected and a room exists, the handshakes
\* without cookie, with a forged token, of an unknown id and of a principal with
\* a disallowed position are each refused with their reason
C23_Witness ==
  /\ sockets = {"c1", "c3"}
  /\ RoomId(1) \in DOMAIN rooms
  /\ Authenticate(Cookies("c9")).reason = "Authentication token missing"
  /\ Authenticate(Cookies("c10")).reason = "Authentication error: invalid signature"
  /\ Authenticate(Cookies("c6")).reason = "User not found, authorization denied"
  /\ Authenticate(Cookies("c7")).reason = "Authorization error: Invalid or unauthorized role"
  /\ \A c \in {"c6", "c7", "c9", "c10"} : FailsResolution(c) /\ ~ENABLED Connect(c)

C25_RoleByCollectionPriority ==
  \A c \in (Conns \cup RefusedConns) \ sockets :
    LET present == {i \in 1..Len(TokenMap) : Cookies(c)[TokenMap[i]] # ""}
    IN present # {}
       => LET id == Cookies(c)[TokenMap[CHOOSE i \in present : \A j \in present : i <= j]]
          IN (id # Forged /\ LookupRole(id) # ""
              /\ ToLowerCase(StoredPosition(id)) \in AllowedRoles)
             => /\ Authenticate(Cookies(c)).ok
                /\ Authenticate(Cookies(c)).role = LookupRole(id)

\* C26: whenever no handler is suspended at an await, every room of the
\* in-memory cache has a persisted record, and its cached users and creator
\* are the persisted ones.
C26_CacheAgreesWithPersistence ==
  pending = {}
  => \A r \in DOMAIN rooms :
       /\ r \in DOMAIN roomCollection
       /\ rooms[r].users = roomCollection[r].users
       /\ rooms[r].creator = roomCollection[r].creator

\* C27: a disconnect removes the departing principal from every presence map
\* and changes the maps in no other way; for each map that held the principal
\* it emits exactly one onlineUsersUpdate to each connection in that room's
\* group, and it emits nothing else; and, also while a call of the connection
\* is still in flight and when it resumes later, every principal in a presence
\* map has a live connection.
C27_DisconnectEvictsAndAnnounces ==
  /\ [](\A r \in DOMAIN onlineUsersByRoom :
          \A u \in onlineUsersByRoom[r] : \E c \in sockets : ConnUser(c) = u)
  /\ [][\/ UNCHANGED lastOp
        \/ lastOp'.op # "disconnect"
        \/ LET c == lastOp'.by
               u == ConnUser(c)
               affected == {r \in DOMAIN onlineUsersByRoom : u \in onlineUsersByRoom[r]}
               updates(r, x) == {i \in 1..Len(outbox') :
                                   /\ outbox'[i].ev = "onlineUsersUpdate"
                                   /\ outbox'[i].room = r
                                   /\ outbox'[i].to = x}
           IN /\ DOMAIN onlineUsersByRoom' = DOMAIN onlineUsersByRoom
              /\ \A r \in DOMAIN onlineUsersByRoom :
                   onlineUsersByRoom'[r] = onlineUsersByRoom[r] \ {u}
              /\ \A r \in affected :
                   \A x \in GroupOf(sockets', socketRooms', r) :
                     Cardinality(updates(r, x)) = 1
              /\ \A e \in Events(outbox') :
                   /\ e.ev = "onlineUsersUpdate"
                   /\ e.room \in affected
                   /\ e.to \in GroupOf(sockets', socketRooms', e.room)]_vars

\* C27 happens: A's connection c1, present in room_1 next to B, has disconnected
\* while its room fetch was still in flight; A is out of the presence map and
\* B's connection was sent the one onlineUsersUpdate
C27_Witness ==
  /\ lastOp = Op("disconnect", "c1", "", 0)
  /\ \E call \in pending : call.by = "c1" /\ ~call.open
  /\ sockets = {"c3"}
  /\ RoomId(1) \in DOMAIN onlineUsersByRoom
  /\ onlineUsersByRoom[RoomId(1)] = {"B"}
  /\ Len(outbox) = 1
  /\ outbox[1].ev = "onlineUsersUpdate" /\ outbox[1].to = "c3"
  /\ outbox[1].room = RoomId(1)

\* C28: after a createRoom that went through, every live connection of every
\* principal in the stored membership of the new room is in the room's group,
\* was sent at least one roomCreated for the room and was sent exactly one
\* newMessage, the system message of the room.
C28_EveryMemberConnectionJoinedAndNotified ==
  [][\/ UNCHANGED lastOp
     \/ lastOp'.op # "createRoom"
     \/ LET r == lastOp'.room
        IN /\ r \in DOMAIN roomCollection'
           /\ \A x \in sockets' :
                Includes(roomCollection'[r].users, ConnUser(x))
                => /\ x \in GroupOf(sockets', socketRooms', r)
                   /\ \E e \in Events(outbox') :
                        e.ev = "roomCreated" /\ e.to = x /\ e.room = r
                   /\ Count(outbox', "newMessage", x) = 1
                   /\ \A e \in Events(outbox') :
                        (e.ev = "newMessage" /\ e.to = x)
                        => e.room = r /\ e.userId = "system"]_vars

C30_RoomDeletedAfterPurgesAndDeletion ==
  [][/\ \A call \in pending' \ pending :
          \/ \E old \in pending :
               /\ old.id = call.id
               /\ call = [old EXCEPT !.open = call.open, !.stage = call.stage]
               /\ \/ call.stage = old.stage
                  \/ /\ old.stage = "voices" /\ call.stage = "files"
                     /\ (Attachments(call.room, "voice"))' = {}
                  \/ /\ old.stage = "files" /\ call.stage = "messages"
                     /\ (Attachments(call.room, "file"))' = {}
                  \/ /\ old.stage = "messages" /\ call.stage = "room"
                     /\ (MessagesOf(call.room))' = {}
          \/ /\ call.stage = "voices"
             /\ \A old \in pending : old.id # call.id
     /\ (\E e \in Events(outbox') : e.ev = "roomDeleted") /\ <<outbox, lastOp>>' # <<outbox, lastOp>>
        => \E call \in pending \ pending' :
             /\ call.stage = "room"
             /\ \A other \in pending' : other.id # call.id
             /\ call.room \in DOMAIN roomCollection
             /\ call.room \notin DOMAIN roomCollection'
             /\ \A x \in Group(call.room) : Count(outbox', "roomDeleted", x) = 1
             /\ \A e \in Events(outbox') :
                  e.ev = "roomDeleted" /\ e.room = call.room /\ e.to \in Group(call.room)]_vars

\* C30 happens: one deletion of room_1 has removed the record and told A's
\* connection, which is still in the room's group, while a second deletion of
\* the same room is about to run its own room-record deletion
C30_Witness ==
  /\ lastOp = Op("httpDeleteRoom", "A", RoomId(1), 200)
  /\ RoomId(1) \notin DOMAIN roomCollection
  /\ MessagesOf(RoomId(1)) = {}
  /\ "c1" \in Group(RoomId(1))
  /\ Count(outbox, "roomDeleted", "c1") = 1
  /\ \E call \in pending : call.room = RoomId(1) /\ call.stage = "room"


\* the connections an emitted sequence reaches, each with the author name it shows
Shown(emits) == {<<e.to, e.username>> : e \in Events(emits)}

\* C31: whenever a principal with a live connection could both upload a file or
\* a voice note to a room and send a message to it, the upload's newFile /
\* newVoice reaches exactly the connections that the newMessage of the send
\* would reach, each with the same author name as the send would show it.
C31_UploadFansOutLikeSend ==
  \A c \in sockets, message \in SendBodies, r \in TargetRooms, kind \in {"file", "voice"} :
    ( /\ UploadStatus(ConnUser(c), r) = 200
      /\ SendRefusal(c, message, r) = <<>> )
    => Shown(UploadEmits(ConnUser(c), r, kind)) = Shown(SendMessageEmits(c, message, r))

\* room r belongs to a tenant other than that of principal u, given the stored
\* rooms: the company room of another tenant, or a stored explicit room of one
ForeignRoom(stored, u, r) ==
  IF r \in CompanyRooms THEN r # CompanyRoomOf(u)
  ELSE r \in DOMAIN stored /\ stored[r].companyId # CompanyOf(u)

\* C32: no step delivers an event that names a room to a connection whose
\* tenant is not the room's, and every message or attachment a step persists
\* under a principal's id lies in that principal's own company room or in a
\* stored explicit room that lists the principal.
C32_NoCrossTenantEventOrWrite ==
  [][\/ UNCHANGED <<outbox, messageCollection>>
     \/ /\ \A e \in Events(outbox') :
             e.room # "" => /\ ~ForeignRoom(roomCollection, ConnUser(e.to), e.room)
                            /\ ~ForeignRoom(roomCollection', ConnUser(e.to), e.room)
        /\ \A id \in DOMAIN messageCollection' \ DOMAIN messageCollection :
             LET m == messageCollection'[id]
             IN m.userId \in Users
                => \/ m.roomId = CompanyRoomOf(m.userId)
                   \/ /\ m.roomId \in DOMAIN roomCollection
                      /\ Includes(roomCollection[m.roomId].users, m.userId)]_vars
\* principal u has left the stored room r: the room is persisted without u
\* (only a leaveRoom takes a principal off a stored room's list)
HasLeft(u, r) ==
  /\ r \in DOMAIN roomCollection
  /\ ~Includes(roomCollection[r].users, u)

\* C33: once a principal is off a stored room's list by its leaveRoom, no later
\* step delivers a newMessage, messageUpdated, messageDeleted or
\* onlineUsersUpdate of that room to any connection of that principal, whichever
\* of its connections issued the leave, and every sendMessage to that room from
\* any of its connections is refused.
C33_LeftPrincipalCutOff ==
  /\ [](\A x \in sockets, message \in SendBodies, r \in ExplicitRoomIds :
          HasLeft(ConnUser(x), r) => SendRefusal(x, message, r) # <<>>)
  /\ [][\/ UNCHANGED lastOp
        \/ lastOp'.op = "leaveRoom"
        \/ \A e \in Events(outbox') :
             e.ev \in {"newMessage", "messageUpdated", "messageDeleted", "onlineUsersUpdate"}
             => ~HasLeft(ConnUser(e.to), e.room)]_vars
\* C34: whenever no handler is in flight, every persisted message of an
\* explicit room belongs to a room that is still stored: a deleted room has no
\* message left, and no send during or after its deletion leaves one.
C34_NoMessageOfDeletedRoom ==
  pending = {}
  => \A id \in DOMAIN messageCollection :
       messageCollection[id].roomId \in ExplicitRoomIds
       => messageCollection[id].roomId \in DOMAIN roomCollection
\* C35: every step of a deleteRoom socket event either leaves the presence
\* maps, the room cache and persistence as they were, or is issued by a
\* principal permitted to delete the room, deletes the room's record and
\* removes nothing but that room's presence map.
C35_SocketDeleteOnlyWhenPermitted ==
  [][\/ UNCHANGED <<onlineUsersByRoom, rooms, db>>
     \/ \A c \in sockets, r \in TargetRooms :
          DeleteRoomSocket(c, r)
          => /\ DeleteRoomStatus(ConnUser(c), r) = 200
             /\ r \in DOMAIN roomCollection /\ r \notin DOMAIN roomCollection'
             /\ onlineUsersByRoom' = Without(onlineUsersByRoom, r)]_vars
\* C36: a principal without a live connection is in no presence map, also
\* while calls of its closed connections are still in flight: the disconnect
\* of its last connection takes it out of every map and nothing puts it back.
C36_NoPresenceWithoutConnection ==
  \A u \in Users :
    (\A c \in sockets : ConnUser(c) # u)
    => \A r \in DOMAIN onlineUsersByRoom : u \notin onlineUsersByRoom[r]

\* C36 happens: B's only connection c3 has disconnected with its room fetch
\* still in flight; B was present in room_1 next to A, whose connection was
\* sent the onlineUsersUpdate, and the map now holds A alone
C36_Witness ==
  /\ lastOp = Op("disconnect", "c3", "", 0)
  /\ \A c \in sockets : ConnUser(c) # "B"
  /\ \E call \in pending : call.by = "c3" /\ ~call.open
  /\ RoomId(1) \in DOMAIN onlineUsersByRoom
  /\ onlineUsersByRoom[RoomId(1)] = {"A"}
  /\ \E e \in Events(outbox) : e.ev = "onlineUsersUpdate" /\ e.room = RoomId(1)
\* C37: at every moment, also before its connection-time room fetch has
\* filled the cache, a joinRoom of a live connection for a stored room that
\* lists its principal would be accepted.
C37_MemberJoinAlwaysAccepted ==
  \A c \in sockets, r \in DOMAIN roomCollection :
    Includes(roomCollection[r].users, ConnUser(c)) => JoinAllowed(c, r)

\* C38: every step of an accepted sendMessage adds exactly one message and
\* changes no other, and emits exactly one newMessage of that message to each
\* connection of the room's transport group, the sender's included if it is
\* there, and nothing else: no errorMessage and no second copy to anyone.
C38_OneMessageOneEventEach ==
  [][\/ UNCHANGED lastOp
     \/ lastOp'.op # "sendMessage"
     \/ /\ DOMAIN messageCollection' \ DOMAIN messageCollection = {lastOp'.n}
        /\ \A id \in DOMAIN messageCollection :
             /\ id \in DOMAIN messageCollection'
             /\ messageCollection'[id] = messageCollection[id]
        /\ \A x \in sockets :
             x \in Group(lastOp'.room)
             => Cardinality({i \in 1..Len(outbox') : outbox'[i].to = x}) = 1
        /\ \A e \in Events(outbox') :
             /\ e.ev = "newMessage"
             /\ e.msg = lastOp'.n
             /\ e.to \in Group(lastOp'.room)]_vars
\* C39: a stored message of author "system" is refused to every connection's
\* editMessage and deleteMessage, whatever room they name, and every step
\* leaves it as it is unless the step is the deletion of its room, which
\* removes it.
C39_SystemMessageOnlyGoesWithRoom ==
  /\ [](\A c \in sockets, id \in DOMAIN messageCollection, newMessage \in EditBodies,
           r \in TargetRooms \cup {""} :
          messageCollection[id].userId = "system"
          => /\ EditRefusal(c, id, newMessage, r) # ""
             /\ DeleteRefusal(c, id, r) # "")
  /\ [][\A id \in DOMAIN messageCollection :
          messageCollection[id].userId = "system"
          => \/ /\ id \in DOMAIN messageCollection'
                /\ messageCollection'[id] = messageCollection[id]
             \/ /\ lastOp'.op = "httpDeleteRoom"
                /\ lastOp'.room = messageCollection[id].roomId
                /\ id \notin DOMAIN messageCollection']_vars

\* C39 happens: the system message of room_1 is stored as message 1 and the
\* creator A, connected and naming its room, is refused both its edit and its
\* deletion
C39_Witness ==
  /\ "c1" \in sockets
  /\ 1 \in DOMAIN messageCollection
  /\ messageCollection[1].userId = "system"
  /\ messageCollection[1].roomId = RoomId(1)
  /\ RoomId(1) \in DOMAIN roomCollection
  /\ roomCollection[RoomId(1)].creator = "A"
  /\ EditRefusal("c1", 1, Hello, RoomId(1)) # ""
  /\ DeleteRefusal("c1", 1, RoomId(1)) # ""
====
